---- MODULE Spec2Model ----
(***************************************************************************)
(* A model of the fake-news analysis pipeline: the analysis cache          *)
(* (src/src/analysis_cache.py), the agent's score-only fallback            *)
(* (src/src/agent.py) and the workflow (src/src/workflow.py).              *)
(*                                                                         *)
(* Conventions                                                             *)
(*  - a Python str is a sequence of one-character strings;                 *)
(*  - Optional[str] is a record [none, val];                               *)
(*  - a dict is a TLA+ record (a function on its keys);                    *)
(*  - a float score in [0,1] is an integer number of millionths;           *)
(*  - a call that can raise yields a record with the fields raised, exc.   *)
(***************************************************************************)
EXTENDS Integers, Sequences, FiniteSets, TLC

VARIABLES
    pool,       \* AnalysisCache.pool: "none" (None) or "ok" (a ThreadedConnectionPool)
    table,      \* the rows of post_analyses
    clock,      \* CURRENT_TIMESTAMP of the database
    nextId,     \* next value of the id column
    calls,      \* number of calls made so far
    last,       \* the last completed call, its arguments and its outcome
    saved,      \* history: per fingerprint, the verdict of the latest save that returned True
    hashCall,   \* the last pair of _generate_hash calls
    agentCall,  \* the last FakeNewsAgent.analyze call
    pageCall,   \* the last get_posts_paginated call
    analysis_cache, \* FakeNewsWorkflow.analysis_cache is an AnalysisCache (TRUE) or None
    req,        \* the process_post_json request in progress
    prev,       \* the request completed before it
    requests,   \* number of requests submitted
    workflow,   \* api.py's global workflow: "none" (None) or "ok" (a FakeNewsWorkflow)
    apiCall,    \* the last HTTP request and its response
    entryCall,  \* the last process_post_json_string call
    embeddings, \* VectorDB.embeddings: "none" (None) or "ok"
    noticiasrag, \* the committed rows of the vector store's table, in insertion order
    vecCall,    \* the last VectorDB call and its outcome
    used,       \* the threads that hold a connection of the cache's pool
    thread,     \* per thread, where its cache operation stands
    workers     \* per concurrent caller of process_post_json, its request

serviceVars == <<workflow, apiCall, entryCall, embeddings, noticiasrag, vecCall, used, thread, workers>>

vars == <<pool, table, clock, nextId, calls, last, saved, hashCall, agentCall, pageCall,
          analysis_cache, req, prev, requests, serviceVars>>

workflowVars == <<analysis_cache, req, prev, requests>>

\* Nothing has been asked of the HTTP layer, the string entry point, the vector
\* store or the pool's threads.
ServiceIdle ==
    /\ workflow = "ok"
    /\ apiCall = [done |-> FALSE]
    /\ entryCall = [done |-> FALSE]
    /\ embeddings = "ok"
    /\ noticiasrag = <<>>
    /\ vecCall = [done |-> FALSE]
    /\ used = {}
    /\ thread = <<>>
    /\ workers = <<>>

(***************************************************************************)
(* Bounds of the model.                                                    *)
(***************************************************************************)
MaxCalls == 3
MaxLen == 2
MaxRequests == 2

(***************************************************************************)
(* Python values.                                                          *)
(***************************************************************************)
Scale == 10^6

None == [none |-> TRUE, val |-> <<>>]
Some(s) == [none |-> FALSE, val |-> s]

\* Truth value of an Optional[str]: None and "" are falsy.
Truthy(o) == ~o.none /\ o.val # <<>>

EmptyDict == [k \in {} |-> 0]

HasAttr(obj, name) == name \in DOMAIN obj

\* The outcome of a call that may raise: the value returned, or the exception.
NoValue == [text |-> <<>>, image_description |-> <<>>, social_network |-> <<>>, trend |-> <<>>]
Return(v) == [raised |-> FALSE, exc |-> "", val |-> v]
Raise(e) == [raised |-> TRUE, exc |-> e, val |-> NoValue]

\* str.lower() and str.strip() on the characters of the model.
Chars == {"A", "a", " "}

LowerChar(c) == IF c = "A" THEN "a" ELSE c

RECURSIVE Lower(_)
Lower(s) == IF s = <<>> THEN <<>> ELSE <<LowerChar(Head(s))>> \o Lower(Tail(s))

IsSpace(c) == c = " "

RECURSIVE LStrip(_)
LStrip(s) == IF s # <<>> /\ IsSpace(Head(s)) THEN LStrip(Tail(s)) ELSE s

RECURSIVE RStrip(_)
RStrip(s) == IF s # <<>> /\ IsSpace(s[Len(s)]) THEN RStrip(SubSeq(s, 1, Len(s) - 1)) ELSE s

Strip(s) == RStrip(LStrip(s))

\* psycopg2's Json(...) adapter on the way in, the JSONB column on the way out.
JsonArray(xs) == [kind |-> "array", items |-> xs]
JsonObject(d) == [kind |-> "object", members |-> d]
JsonNull == [kind |-> "null"]

\* row['relevant_sources'] or []
OrEmptyList(j) == IF j.kind = "array" /\ j.items # <<>> THEN j.items ELSE <<>>

\* row['factors'] or {}
OrEmptyDict(j) == IF j.kind = "object" /\ DOMAIN j.members # {} THEN j.members ELSE EmptyDict

(***************************************************************************)
(* models.py: PostInput has text, metadata, image_description and          *)
(* social_network, and no trend.                                           *)
(***************************************************************************)
PostInput(text, metadata, image_description, social_network) ==
    [text |-> text, metadata |-> metadata,
     image_description |-> image_description, social_network |-> social_network]

\* A post object that also carries the trend attribute analysis_cache.py reads
\* (Python checks no type: any object with these attributes is accepted).
TrendPost(text, metadata, image_description, social_network, trend) ==
    [text |-> text, metadata |-> metadata,
     image_description |-> image_description, social_network |-> social_network,
     trend |-> trend]

PostAnalysisOutput(risk_level, risk_score, bert_score, confidence, reasoning, relevant_sources, factors) ==
    [risk_level |-> risk_level, risk_score |-> risk_score, bert_score |-> bert_score,
     confidence |-> confidence, reasoning |-> reasoning,
     relevant_sources |-> relevant_sources, factors |-> factors]

NoVerdict == PostAnalysisOutput("", 0, 0, 0, <<>>, <<>>, EmptyDict)

(***************************************************************************)
(* AnalysisCache._generate_hash.  json.dumps(sort_keys=True) of a dict of  *)
(* four strings is injective and SHA-256 is taken to be collision-free, so *)
(* the digest is represented by the dict that was hashed.                  *)
(***************************************************************************)
hash_data(post_input) ==
    [text |-> Lower(Strip(post_input.text)),
     image_description |->
        IF Truthy(post_input.image_description)
        THEN Lower(Strip(post_input.image_description.val)) ELSE <<>>,
     social_network |->
        IF Truthy(post_input.social_network) THEN post_input.social_network.val ELSE <<>>,
     trend |-> IF Truthy(post_input.trend) THEN post_input.trend.val ELSE <<>>]

_generate_hash(post_input) ==
    IF HasAttr(post_input, "trend")
    THEN Return(hash_data(post_input))
    ELSE Raise("AttributeError")

(***************************************************************************)
(* The storage's behaviour during one cache call.                          *)
(*   getconn  - pool.getconn() raises (all connections are checked out)    *)
(*   execute  - cursor.execute raises                                      *)
(*   commit   - conn.commit raises, nothing is committed                   *)
(* and whether conn.rollback() raises when it is called.                   *)
(***************************************************************************)
Faults == {"none", "getconn", "execute", "commit"}

RowsWithHash(h) == {r \in table : r.post_hash = h}

\* get_analysis: [raised, exc, found, verdict]
GetResult(raised, exc, found, verdict) ==
    [raised |-> raised, exc |-> exc, found |-> found, verdict |-> verdict]

\* get_analysis with the sources column left out of the reconstruction.
RowToOutput_NoSources(row) ==
    PostAnalysisOutput(row.risk_level, row.risk_score, row.bert_score, row.confidence,
                       row.reasoning, <<>>, OrEmptyDict(row.factors))

RowToOutput(row) ==
    PostAnalysisOutput(row.risk_level, row.risk_score, row.bert_score, row.confidence,
                       row.reasoning, OrEmptyList(row.relevant_sources),
                       OrEmptyDict(row.factors))

get_analysis(post_input, fault) ==
    IF pool = "none" THEN GetResult(FALSE, "", FALSE, NoVerdict)
    ELSE LET post_hash == _generate_hash(post_input) IN
         IF post_hash.raised THEN GetResult(TRUE, post_hash.exc, FALSE, NoVerdict)
         ELSE IF fault \in {"getconn", "execute"}
              THEN GetResult(FALSE, "", FALSE, NoVerdict)
         ELSE LET rows == RowsWithHash(post_hash.val) IN
              IF rows = {} THEN GetResult(FALSE, "", FALSE, NoVerdict)
              ELSE GetResult(FALSE, "", TRUE, RowToOutput(CHOOSE r \in rows : TRUE))

\* The INSERT ... ON CONFLICT (post_hash) DO UPDATE statement.
NewRow(post_hash, post_input, analysis) ==
    [id |-> nextId, post_hash |-> post_hash,
     post_text |-> post_input.text, post_metadata |-> JsonObject(post_input.metadata),
     image_description |-> post_input.image_description,
     social_network |-> post_input.social_network,
     trend |-> post_input.trend,
     risk_level |-> analysis.risk_level, risk_score |-> analysis.risk_score,
     bert_score |-> analysis.bert_score, confidence |-> analysis.confidence,
     reasoning |-> analysis.reasoning,
     relevant_sources |-> JsonArray(analysis.relevant_sources),
     factors |-> JsonObject(analysis.factors),
     created_at |-> clock, updated_at |-> clock]

\* ON CONFLICT (post_hash) DO NOTHING
OnConflictDoNothing(row, analysis) == row

\* An update that rewrites the row's timestamps, created_at included.
OnConflictUpdate_Recreated(row, analysis) ==
    [row EXCEPT !.risk_level = analysis.risk_level,
                !.risk_score = analysis.risk_score,
                !.bert_score = analysis.bert_score,
                !.confidence = analysis.confidence,
                !.reasoning = analysis.reasoning,
                !.relevant_sources = JsonArray(analysis.relevant_sources),
                !.factors = JsonObject(analysis.factors),
                !.created_at = clock,
                !.updated_at = clock]

OnConflictUpdate(row, analysis) ==
    [row EXCEPT !.risk_level = analysis.risk_level,
                !.risk_score = analysis.risk_score,
                !.bert_score = analysis.bert_score,
                !.confidence = analysis.confidence,
                !.reasoning = analysis.reasoning,
                !.relevant_sources = JsonArray(analysis.relevant_sources),
                !.factors = JsonObject(analysis.factors),
                !.updated_at = clock]

Upsert(post_hash, post_input, analysis) ==
    IF RowsWithHash(post_hash) = {}
    THEN table \cup {NewRow(post_hash, post_input, analysis)}
    ELSE {IF r.post_hash = post_hash THEN OnConflictUpdate(r, analysis) ELSE r : r \in table}

\* save_analysis: [raised, exc, ok, committed, table]
SaveResult(raised, exc, ok, committed, tbl) ==
    [raised |-> raised, exc |-> exc, ok |-> ok, committed |-> committed, table |-> tbl]

\* save_analysis without the early return for an absent pool: _get_connection's
\* ConnectionError is raised before the try.
save_analysis_NoPoolCheck(post_input, analysis, fault, rollbackFails) ==
    IF pool = "none" THEN SaveResult(TRUE, "ConnectionError", FALSE, FALSE, table)
    ELSE SaveResult(FALSE, "", FALSE, FALSE, table)

save_analysis(post_input, analysis, fault, rollbackFails) ==
    IF pool = "none" THEN SaveResult(FALSE, "", FALSE, FALSE, table)
    ELSE LET post_hash == _generate_hash(post_input) IN
         IF post_hash.raised THEN SaveResult(TRUE, post_hash.exc, FALSE, FALSE, table)
         ELSE IF fault = "getconn" THEN SaveResult(FALSE, "", FALSE, FALSE, table)
         ELSE IF fault \in {"execute", "commit"}
              THEN IF rollbackFails
                   THEN SaveResult(TRUE, "OperationalError", FALSE, FALSE, table)
                   ELSE SaveResult(FALSE, "", FALSE, FALSE, table)
         ELSE SaveResult(FALSE, "", TRUE, TRUE, Upsert(post_hash.val, post_input, analysis))

(***************************************************************************)
(* Direct use of the cache: a sequence of get_analysis and save_analysis   *)
(* calls on one AnalysisCache.                                             *)
(***************************************************************************)
Likes == [likes |-> 1]

CachePosts ==
    { PostInput(<<"A">>, EmptyDict, None, None),
      TrendPost(<<"A">>, EmptyDict, None, None, None),
      TrendPost(<<" ", "a">>, Likes, Some(<<>>), Some(<<>>), Some(<<>>)),
      TrendPost(<<"A">>, EmptyDict, None, None, Some(<<"a">>)),
      TrendPost(<<"A">>, EmptyDict, Some(<<"A", " ">>), Some(<<"A">>), None) }

FallbackFactors == [bert_score |-> 7 * (Scale \div 10), has_image |-> FALSE, metadata_count |-> 0]

CacheVerdicts ==
    { PostAnalysisOutput("ALTO", 63 * (Scale \div 100), 7 * (Scale \div 10), 6 * (Scale \div 10),
                         <<"auto">>, <<>>, FallbackFactors),
      PostAnalysisOutput("BAIXO", Scale \div 10, 2 * (Scale \div 10), 9 * (Scale \div 10),
                         <<"llm">>, <<"g1", "folha">>, [llm |-> TRUE]),
      PostAnalysisOutput("CRITICO", Scale, Scale, Scale, <<"llm">>, <<"g1">>, EmptyDict) }

NoPost == PostInput(<<>>, EmptyDict, None, None)

LastCall(op, post, fault, raised, exc, found, ok, committed, unchanged, verdict) ==
    [op |-> op, post |-> post, fault |-> fault, raised |-> raised, exc |-> exc,
     found |-> found, ok |-> ok, committed |-> committed, unchanged |-> unchanged,
     verdict |-> verdict]

NoCall == LastCall("none", NoPost, "none", FALSE, "", FALSE, FALSE, FALSE, TRUE, NoVerdict)

\* A row left by an earlier run of the service.
OldRow ==
    [id |-> 1,
     post_hash |-> [text |-> <<"a">>, image_description |-> <<>>,
                    social_network |-> <<>>, trend |-> <<>>],
     post_text |-> <<"a">>, post_metadata |-> JsonObject(EmptyDict),
     image_description |-> None, social_network |-> None, trend |-> None,
     risk_level |-> "MEDIO", risk_score |-> Scale \div 2, bert_score |-> Scale \div 2,
     confidence |-> Scale \div 2, reasoning |-> <<"old">>,
     relevant_sources |-> JsonNull, factors |-> JsonNull,
     created_at |-> 0, updated_at |-> 0]

\* No workflow request in progress.
NoRequest == [pc |-> "idle"]

WorkflowIdle ==
    /\ analysis_cache = TRUE
    /\ req = NoRequest
    /\ prev = NoRequest
    /\ requests = 0

InitCache ==
    /\ pool \in {"none", "ok"}
    /\ table \in {{}, {OldRow}}
    /\ clock = 1
    /\ nextId = 2
    /\ calls = 0
    /\ WorkflowIdle
    /\ ServiceIdle
    /\ last = NoCall
    /\ saved = {}
    /\ hashCall = [p1 |-> NoPost, p2 |-> NoPost, done |-> FALSE, r1 |-> Raise(""), r2 |-> Raise("")]
    /\ agentCall = [done |-> FALSE]
    /\ pageCall = [done |-> FALSE]

CacheGet ==
    /\ calls < MaxCalls
    /\ \E p \in CachePosts, f \in Faults \ {"commit"} :
         LET r == get_analysis(p, f) IN
         /\ last' = LastCall("get", p, f, r.raised, r.exc, r.found, FALSE, FALSE, TRUE, r.verdict)
    /\ calls' = calls + 1
    /\ UNCHANGED <<pool, table, clock, nextId, saved, hashCall, agentCall, pageCall, workflowVars, serviceVars>>

CacheSave ==
    /\ calls < MaxCalls
    /\ \E p \in CachePosts, v \in CacheVerdicts, f \in Faults, rb \in BOOLEAN :
         LET r == save_analysis(p, v, f, rb) IN
         /\ f \in {"none", "getconn"} => ~rb
         /\ table' = r.table
         /\ last' = LastCall("save", p, f, r.raised, r.exc, FALSE, r.ok, r.committed,
                             r.table = table, v)
         /\ saved' = IF r.ok
                     THEN {s \in saved : s.h # hash_data(p)} \cup {[h |-> hash_data(p), v |-> v]}
                     ELSE saved
         /\ nextId' = IF Cardinality(r.table) > Cardinality(table) THEN nextId + 1 ELSE nextId
         /\ clock' = IF r.committed THEN clock + 1 ELSE clock
    /\ calls' = calls + 1
    /\ UNCHANGED <<pool, hashCall, agentCall, pageCall, workflowVars, serviceVars>>

NextCache == CacheGet \/ CacheSave

SpecCache == InitCache /\ [][NextCache]_vars

(***************************************************************************)
(* The cache claims.                                                       *)
(***************************************************************************)
Hashable(post) == ~_generate_hash(post).raised

SavedFor(post) == {s \in saved : s.h = hash_data(post)}

\* C2: get_analysis never raises; every call returns a verdict or None.
C2_GetNeverRaises == last.op = "get" => ~last.raised

\* C4 as stated: once save_analysis(p, v) returned True, with no later write to
\* the fingerprint, the next get_analysis(p) returns a verdict equal to v.
C4_RoundTripAlways ==
    (last.op = "get" /\ Hashable(last.post)) =>
        \A s \in SavedFor(last.post) : last.found /\ last.verdict = s.v

\* C4 amended: once save_analysis(p, v) returned True, with no later write to
\* the fingerprint, a get_analysis(p) whose connection and query succeed returns
\* a verdict equal to v in every field; one whose connection or query fails
\* returns None.
C4_RoundTrip ==
    (last.op = "get" /\ Hashable(last.post)) =>
        \A s \in SavedFor(last.post) :
            /\ ~last.raised
            /\ IF last.fault = "none"
               THEN last.found /\ last.verdict = s.v
               ELSE ~last.found

C4_Witness ==
    /\ last.op = "get" /\ last.found /\ Hashable(last.post)
    /\ \E s \in SavedFor(last.post) :
          /\ last.verdict = s.v
          /\ s.v.relevant_sources # <<>>
          /\ DOMAIN s.v.factors # {}

\* C5: the table holds exactly one row for every fingerprint saved successfully,
\* and the row's verdict columns are those of the latest successful save.
C5_IdempotentUpsert ==
    /\ \A r1, r2 \in table : r1.post_hash = r2.post_hash => r1 = r2
    /\ \A s \in saved :
          /\ Cardinality(RowsWithHash(s.h)) = 1
          /\ \A r \in RowsWithHash(s.h) :
                /\ r.risk_level = s.v.risk_level
                /\ r.risk_score = s.v.risk_score
                /\ r.bert_score = s.v.bert_score
                /\ r.confidence = s.v.confidence
                /\ r.reasoning = s.v.reasoning
                /\ r.relevant_sources = JsonArray(s.v.relevant_sources)
                /\ r.factors = JsonObject(s.v.factors)

\* A fingerprint saved at least twice: its row was updated after it was created.
C5_Witness ==
    \E s \in saved : \E r \in RowsWithHash(s.h) :
        /\ r.updated_at > r.created_at
        /\ r.created_at > 0
        /\ r.risk_level = s.v.risk_level

\* C10: save_analysis never raises and returns a boolean, True only when the
\* row was committed; after False the table is unchanged.
C10_SaveNeverRaises ==
    last.op = "save" =>
        /\ ~last.raised
        /\ last.ok => last.committed
        /\ ~last.ok => last.unchanged

(***************************************************************************)
(* _generate_hash on pairs of posts.                                       *)
(***************************************************************************)
Strings(n) == UNION {[1..k -> Chars] : k \in 0..n}

HashPosts ==
    {PostInput(t, m, i, sn) :
        t \in Strings(MaxLen), m \in {EmptyDict, Likes},
        i \in {None, Some(<<"A", " ">>)}, sn \in {None, Some(<<"A">>)}}
    \cup
    {TrendPost(t, m, i, sn, tr) :
        t \in Strings(MaxLen), m \in {EmptyDict, Likes},
        i \in {None, Some(<<"A", " ">>)}, sn \in {None, Some(<<"A">>)},
        tr \in {None, Some(<<>>), Some(<<"a">>)}}

OtherPosts ==
    {PostInput(t, Likes, i, None) :
        t \in Strings(MaxLen), i \in {None, Some(<<>>), Some(<<"a">>)}}
    \cup
    {TrendPost(t, Likes, i, None, None) :
        t \in Strings(MaxLen), i \in {None, Some(<<>>), Some(<<"a">>)}}

HashCall(p1, p2, done, r1, r2) == [p1 |-> p1, p2 |-> p2, done |-> done, r1 |-> r1, r2 |-> r2]

NoHashCall == HashCall(NoPost, NoPost, FALSE, Raise(""), Raise(""))

InitHash ==
    /\ pool = "ok"
    /\ table = {}
    /\ clock = 1
    /\ nextId = 1
    /\ calls = 0
    /\ WorkflowIdle
    /\ ServiceIdle
    /\ last = NoCall
    /\ saved = {}
    /\ \E p1 \in HashPosts, p2 \in OtherPosts :
          hashCall = HashCall(p1, p2, FALSE, Raise(""), Raise(""))
    /\ agentCall = [done |-> FALSE]
    /\ pageCall = [done |-> FALSE]

GenerateHashes ==
    /\ ~hashCall.done
    /\ hashCall' = [hashCall EXCEPT !.done = TRUE,
                                    !.r1 = _generate_hash(hashCall.p1),
                                    !.r2 = _generate_hash(hashCall.p2)]
    /\ UNCHANGED <<pool, table, clock, nextId, calls, last, saved, agentCall, pageCall, workflowVars, serviceVars>>

NextHash == GenerateHashes

SpecHash == InitHash /\ [][NextHash]_vars

\* The fields the fingerprint is documented to depend on.
OrEmpty(o) == IF o.none THEN <<>> ELSE o.val
TrendOrEmpty(post) == IF HasAttr(post, "trend") THEN OrEmpty(post.trend) ELSE <<>>
Normalized(post) ==
    <<Lower(Strip(post.text)), Lower(Strip(OrEmpty(post.image_description))),
      OrEmpty(post.social_network), TrendOrEmpty(post)>>

IsPostInput(post) == DOMAIN post = {"text", "metadata", "image_description", "social_network"}

\* C6: _generate_hash yields a fingerprint for every valid PostInput, and two
\* posts with the same normalized text, image description, social network and
\* trend get the same fingerprint, whatever their metadata.
C6_HashDeterministic ==
    hashCall.done =>
        /\ IsPostInput(hashCall.p1) => ~hashCall.r1.raised
        /\ IsPostInput(hashCall.p2) => ~hashCall.r2.raised
        /\ Normalized(hashCall.p1) = Normalized(hashCall.p2) =>
              /\ ~hashCall.r1.raised /\ ~hashCall.r2.raised
              /\ hashCall.r1.val = hashCall.r2.val

(***************************************************************************)
(* agent.py: FakeNewsAgent.analyze and its score-only fallback.            *)
(***************************************************************************)
Tenths(n) == n * (Scale \div 10)

PostAnalysisInput(text, metadata, image_description, social_network, bert_score) ==
    [text |-> text, metadata |-> metadata,
     image_description |-> image_description, social_network |-> social_network,
     bert_score |-> bert_score]

RiskLevels == {"BAIXO", "MEDIO", "ALTO", "CRITICO"}

\* The field constraints of models.PostAnalysisOutput.
ValidOutput(v) ==
    /\ v.risk_level \in RiskLevels
    /\ v.risk_score \in 0..Scale
    /\ v.bert_score \in 0..Scale
    /\ v.confidence \in 0..Scale

AnalyzeResult(raised, exc, verdict, path, llm_calls) ==
    [raised |-> raised, exc |-> exc, verdict |-> verdict, path |-> path,
     llm_calls |-> llm_calls]

\* The fallback with > in place of >= at the thresholds.
_default_analysis_Strict(post_input) ==
    LET b == post_input.bert_score
        risk_level == IF b > Tenths(8) THEN "CRITICO"
                      ELSE IF b > Tenths(6) THEN "ALTO"
                      ELSE IF b > Tenths(4) THEN "MEDIO"
                      ELSE "BAIXO"
        risk_score == IF b > Tenths(8) THEN b
                      ELSE IF b > Tenths(6) THEN (b * 9) \div 10
                      ELSE IF b > Tenths(4) THEN (b * 7) \div 10
                      ELSE (b * 5) \div 10
        factors == [bert_score |-> b,
                    has_image |-> ~post_input.image_description.none,
                    metadata_count |-> Cardinality(DOMAIN post_input.metadata)]
        out == PostAnalysisOutput(risk_level, risk_score, b, Tenths(6), <<"auto">>, <<>>, factors)
    IN  AnalyzeResult(FALSE, "", out, "fallback", 0)

\* The fallback with the factors of the lowest and the second-highest band exchanged.
_default_analysis_Swapped(post_input) ==
    LET b == post_input.bert_score
        risk_level == IF b >= Tenths(8) THEN "CRITICO"
                      ELSE IF b >= Tenths(6) THEN "ALTO"
                      ELSE IF b >= Tenths(4) THEN "MEDIO"
                      ELSE "BAIXO"
        risk_score == IF b >= Tenths(8) THEN b
                      ELSE IF b >= Tenths(6) THEN (b * 5) \div 10
                      ELSE IF b >= Tenths(4) THEN (b * 7) \div 10
                      ELSE (b * 9) \div 10
        factors == [bert_score |-> b,
                    has_image |-> ~post_input.image_description.none,
                    metadata_count |-> Cardinality(DOMAIN post_input.metadata)]
        out == PostAnalysisOutput(risk_level, risk_score, b, Tenths(6), <<"auto">>, <<>>, factors)
    IN  AnalyzeResult(FALSE, "", out, "fallback", 0)

_default_analysis(post_input) ==
    LET b == post_input.bert_score
        risk_level == IF b >= Tenths(8) THEN "CRITICO"
                      ELSE IF b >= Tenths(6) THEN "ALTO"
                      ELSE IF b >= Tenths(4) THEN "MEDIO"
                      ELSE "BAIXO"
        risk_score == IF b >= Tenths(8) THEN b
                      ELSE IF b >= Tenths(6) THEN (b * 9) \div 10
                      ELSE IF b >= Tenths(4) THEN (b * 7) \div 10
                      ELSE (b * 5) \div 10
        factors == [bert_score |-> b,
                    has_image |-> ~post_input.image_description.none,
                    metadata_count |-> Cardinality(DOMAIN post_input.metadata)]
        out == PostAnalysisOutput(risk_level, risk_score, b, Tenths(6), <<"auto">>, <<>>, factors)
    IN  IF ValidOutput(out)
        THEN AnalyzeResult(FALSE, "", out, "fallback", 0)
        ELSE AnalyzeResult(TRUE, "ValidationError", NoVerdict, "fallback", 0)

\* analyze with the try around the retrieval only: a failing model call propagates.
analyze_Uncaught(post_input, retrieval, llm) ==
    IF retrieval.raises
    THEN _default_analysis(post_input)
    ELSE IF llm.outcome = "ok"
         THEN AnalyzeResult(FALSE, "",
                            [llm.verdict EXCEPT !.relevant_sources = retrieval.sources],
                            "primary", 1)
         ELSE AnalyzeResult(TRUE, "LlmError", NoVerdict, "primary", 1)

\* analyze without the assignment result.relevant_sources = sources.
analyze_KeepsLlmSources(post_input, retrieval, llm) ==
    IF retrieval.raises
    THEN _default_analysis(post_input)
    ELSE IF llm.outcome = "ok"
         THEN AnalyzeResult(FALSE, "", llm.verdict, "primary", 1)
         ELSE [_default_analysis(post_input) EXCEPT !.llm_calls = 1]

\* analyze calling the model a second time before it falls back.
analyze_Retries(post_input, retrieval, llm) ==
    IF retrieval.raises
    THEN _default_analysis(post_input)
    ELSE IF llm.outcome = "ok"
         THEN AnalyzeResult(FALSE, "",
                            [llm.verdict EXCEPT !.relevant_sources = retrieval.sources],
                            "primary", 1)
         ELSE [_default_analysis(post_input) EXCEPT !.llm_calls = 2]

\* retrieval: what get_context and get_sources do; llm: what chain.invoke does.
analyze(post_input, retrieval, llm) ==
    IF retrieval.raises
    THEN _default_analysis(post_input)
    ELSE IF llm.outcome = "ok"
         THEN AnalyzeResult(FALSE, "",
                            [llm.verdict EXCEPT !.relevant_sources = retrieval.sources],
                            "primary", 1)
         ELSE [_default_analysis(post_input) EXCEPT !.llm_calls = 1]

\* Scores on a grid of 1e-5, with the thresholds and their neighbours.
BertScores ==
    {k * (Scale \div 20) : k \in 0..20}
    \cup {t + d : t \in {Tenths(4), Tenths(6), Tenths(8)}, d \in {-10, 10}}
    \cup {10, Scale - 10}

Retrievals ==
    {[raises |-> TRUE, sources |-> <<>>],
     [raises |-> FALSE, sources |-> <<>>],
     [raises |-> FALSE, sources |-> <<"g1", "folha">>]}

LlmVerdicts ==
    {PostAnalysisOutput("BAIXO", Tenths(1), Tenths(2), Tenths(9), <<"llm">>, <<"blog">>, [llm |-> TRUE]),
     PostAnalysisOutput("CRITICO", Scale, Tenths(3), Scale, <<"llm">>, <<>>, EmptyDict)}

\* The model call returns a verdict, raises, or returns None (no structured output).
LlmOutcomes ==
    {[outcome |-> "ok", verdict |-> v] : v \in LlmVerdicts}
    \cup {[outcome |-> "raise", verdict |-> NoVerdict], [outcome |-> "none", verdict |-> NoVerdict]}

AgentInputs ==
    {PostAnalysisInput(<<"A">>, m, i, None, b) :
        m \in {EmptyDict, Likes}, i \in {None, Some(<<>>), Some(<<"a">>)}, b \in BertScores}

InitAgent ==
    /\ pool = "none"
    /\ table = {}
    /\ clock = 1
    /\ nextId = 1
    /\ calls = 0
    /\ WorkflowIdle
    /\ ServiceIdle
    /\ last = NoCall
    /\ saved = {}
    /\ hashCall = NoHashCall
    /\ pageCall = [done |-> FALSE]
    /\ \E i \in AgentInputs, r \in Retrievals, l \in LlmOutcomes :
          agentCall = [done |-> FALSE, input |-> i, retrieval |-> r, llm |-> l,
                       result |-> AnalyzeResult(FALSE, "", NoVerdict, "", 0)]

AgentAnalyze ==
    /\ ~agentCall.done
    /\ agentCall' = [agentCall EXCEPT
                        !.done = TRUE,
                        !.result = analyze(agentCall.input, agentCall.retrieval, agentCall.llm)]
    /\ UNCHANGED <<pool, table, clock, nextId, calls, last, saved, hashCall, pageCall, workflowVars, serviceVars>>

NextAgent == AgentAnalyze

SpecAgent == InitAgent /\ [][NextAgent]_vars

PrimaryFailed(c) == c.retrieval.raises \/ c.llm.outcome # "ok"

\* C7: when the primary path fails, the verdict follows the bert_score
\* thresholds: >= 0.8 CRITICO with risk_score = bert_score; [0.6, 0.8) ALTO with
\* 0.9 * bert_score; [0.4, 0.6) MEDIO with 0.7 * bert_score; below 0.4 BAIXO
\* with 0.5 * bert_score.  A threshold value belongs to the higher level.
C7_FallbackThresholds ==
    (agentCall.done /\ PrimaryFailed(agentCall)) =>
        LET b == agentCall.input.bert_score
            v == agentCall.result.verdict
        IN  /\ b >= 800000 => v.risk_level = "CRITICO" /\ v.risk_score = b
            /\ (b >= 600000 /\ b < 800000) =>
                  v.risk_level = "ALTO" /\ 10 * v.risk_score = 9 * b
            /\ (b >= 400000 /\ b < 600000) =>
                  v.risk_level = "MEDIO" /\ 10 * v.risk_score = 7 * b
            /\ b < 400000 => v.risk_level = "BAIXO" /\ 10 * v.risk_score = 5 * b

\* The fallback ran at a threshold value.
C7_Witness ==
    /\ agentCall.done /\ PrimaryFailed(agentCall)
    /\ agentCall.input.bert_score = 800000
    /\ agentCall.result.verdict.risk_level = "CRITICO"
    /\ agentCall.result.verdict.risk_score = 800000

\* C8: analyze never raises; when retrieval or the model call fails it returns
\* the fallback verdict: confidence 0.6, no sources, the input's bert_score, and
\* the factors bert_score, has_image and metadata_count.
C8_AnalyzeNeverRaises ==
    agentCall.done =>
        /\ ~agentCall.result.raised
        /\ PrimaryFailed(agentCall) =>
              LET v == agentCall.result.verdict
                  i == agentCall.input
              IN  /\ v.confidence = 600000
                  /\ v.relevant_sources = <<>>
                  /\ v.bert_score = i.bert_score
                  /\ DOMAIN v.factors = {"bert_score", "has_image", "metadata_count"}
                  /\ v.factors.bert_score = i.bert_score
                  /\ v.factors.has_image = (i.image_description # None)
                  /\ v.factors.metadata_count = Cardinality(DOMAIN i.metadata)

\* The model call raised after a retrieval that found sources.
C8_Witness ==
    /\ agentCall.done
    /\ agentCall.llm.outcome = "raise"
    /\ agentCall.retrieval.sources # <<>>
    /\ agentCall.input.image_description = Some(<<>>)
    /\ agentCall.result.verdict.factors.has_image
    /\ agentCall.result.verdict.relevant_sources = <<>>

\* C15: on the primary path the verdict's relevant_sources is the list that
\* get_sources returned, whatever the model produced; risk_level, risk_score,
\* confidence and reasoning are the model's.
C15_SourcesOverwritten ==
    (agentCall.done /\ agentCall.result.path = "primary") =>
        LET v == agentCall.result.verdict
            m == agentCall.llm.verdict
        IN  /\ ~agentCall.result.raised
            /\ ~agentCall.retrieval.raises /\ agentCall.llm.outcome = "ok"
            /\ v.relevant_sources = agentCall.retrieval.sources
            /\ v.risk_level = m.risk_level
            /\ v.risk_score = m.risk_score
            /\ v.confidence = m.confidence
            /\ v.reasoning = m.reasoning

\* The model named a source of its own and the retrieval found two others.
C15_Witness ==
    /\ agentCall.done /\ agentCall.result.path = "primary"
    /\ agentCall.llm.verdict.relevant_sources = <<"blog">>
    /\ agentCall.retrieval.sources = <<"g1", "folha">>
    /\ agentCall.result.verdict.relevant_sources = <<"g1", "folha">>

(***************************************************************************)
(* AnalysisCache.get_posts_paginated.                                      *)
(***************************************************************************)
Min(a, b) == IF a < b THEN a ELSE b
Max(a, b) == IF a > b THEN a ELSE b

PageResult(data, total, page, limit, pages) ==
    [data |-> data, total |-> total, page |-> page, limit |-> limit, pages |-> pages]

\* ORDER BY created_at DESC LIMIT limit OFFSET offset, as the ids of the rows.
SelectPage(limit, offset) ==
    LET rank == [r \in table |-> Cardinality({q \in table : q.created_at > r.created_at})]
        n == Max(0, Min(limit, Cardinality(table) - offset))
    IN  [j \in 1..n |-> (CHOOSE r \in table : rank[r] = offset + j - 1).id]

get_posts_paginated(page, limit, fault) ==
    IF pool = "none" THEN PageResult(<<>>, 0, page, limit, 0)
    ELSE LET lim == Min(Max(1, limit), 100)
             pg == Max(1, page)
             offset == (pg - 1) * lim
         IN  IF fault \in {"getconn", "execute"}
             THEN PageResult(<<>>, 0, pg, lim, 0)
             ELSE LET total == Cardinality(table) IN
                  PageResult(SelectPage(lim, offset), total, pg, lim, (total + lim - 1) \div lim)

\* A table of n rows, created one after the other.
RECURSIVE Repeat(_, _)
Repeat(c, n) == IF n = 0 THEN <<>> ELSE <<c>> \o Repeat(c, n - 1)

StoredRow(i) ==
    [OldRow EXCEPT !.id = i, !.created_at = i, !.updated_at = i,
                   !.post_text = Repeat("a", i),
                   !.post_hash = [OldRow.post_hash EXCEPT !.text = Repeat("a", i)]]

RowCounts == {0, 1, 20, 45}
Pages == {-1, 0, 1, 2, 3, 4}
Limits == {-5, 0, 1, 2, 19, 20, 21, 45, 99, 100, 101, 500}

InitPage ==
    /\ pool \in {"none", "ok"}
    /\ \E n \in RowCounts : table = {StoredRow(i) : i \in 1..n} /\ nextId = n + 1 /\ clock = n + 1
    /\ calls = 0
    /\ WorkflowIdle
    /\ ServiceIdle
    /\ last = NoCall
    /\ saved = {}
    /\ hashCall = NoHashCall
    /\ agentCall = [done |-> FALSE]
    /\ \E pg \in Pages, lim \in Limits, f \in Faults \ {"commit"} :
          pageCall = [done |-> FALSE, page |-> pg, limit |-> lim, fault |-> f,
                      result |-> PageResult(<<>>, 0, 0, 0, 0)]

GetPostsPaginated ==
    /\ ~pageCall.done
    /\ pageCall' = [pageCall EXCEPT
                       !.done = TRUE,
                       !.result = get_posts_paginated(pageCall.page, pageCall.limit,
                                                      pageCall.fault)]
    /\ UNCHANGED <<pool, table, clock, nextId, calls, last, saved, hashCall, agentCall, workflowVars, serviceVars>>

NextPage == GetPostsPaginated

SpecPage == InitPage /\ [][NextPage]_vars

\* The least k with k * d >= n.
CeilDiv(n, d) == CHOOSE k \in 0..n : k * d >= n /\ (k = 0 \/ (k - 1) * d < n)

\* C9: in every state of the cache the returned limit lies in 1..100 and the
\* returned page is at least 1; when the query succeeds, pages is
\* ceil(total / limit) for the clamped limit.
C9_PaginationClamped ==
    pageCall.done =>
        /\ pageCall.result.limit \in 1..100
        /\ pageCall.result.page >= 1
        /\ (pool = "ok" /\ pageCall.fault = "none") =>
              /\ pageCall.result.total = Cardinality(table)
              /\ pageCall.result.pages = CeilDiv(pageCall.result.total, pageCall.result.limit)

(***************************************************************************)
(* bert_classifier.py: BERTClassifier.classify.                            *)
(***************************************************************************)
\* round(x, 3) of a number of millionths: to the nearest thousandth, ties to even.
Round3(x) ==
    LET q == x \div 1000
        r == x % 1000
    IN  IF r > 500 \/ (r = 500 /\ q % 2 = 1) THEN (q + 1) * 1000 ELSE q * 1000

\* inference: the pipeline's label and score, or an exception.
classify(text, inference) ==
    IF inference.raises THEN Scale \div 2
    ELSE LET fake_score == IF inference.label = "LABEL_0" THEN inference.score
                           ELSE Scale - inference.score
         IN  Round3(Max(0, Min(Scale, fake_score)))

Inferences ==
    {[raises |-> TRUE, label |-> "", score |-> 0],
     [raises |-> FALSE, label |-> "LABEL_0", score |-> 812500],
     [raises |-> FALSE, label |-> "LABEL_1", score |-> 700400]}

(***************************************************************************)
(* workflow.py: FakeNewsWorkflow.process_post_json, one step per stage.    *)
(***************************************************************************)
\* JSON values of the request body.
JStr(s) == [t |-> "str", s |-> s, d |-> EmptyDict]
JDict(d) == [t |-> "dict", s |-> <<>>, d |-> d]
JNone == [t |-> "null", s |-> <<>>, d |-> EmptyDict]

\* dict.get(key, default)
DictGet(dict, key, default) == IF key \in DOMAIN dict THEN dict[key] ELSE default

ToOptional(j) == IF j.t = "null" THEN None ELSE Some(j.s)

\* PostInput(...) with pydantic's validation of the field types.
_parse_post_json(post_json) ==
    LET text == DictGet(post_json, "text", JStr(<<>>))
        metadata == DictGet(post_json, "metadata", JDict(EmptyDict))
        image_description == DictGet(post_json, "image_description", JNone)
        social_network == DictGet(post_json, "social_network", JNone)
    IN  IF /\ text.t = "str"
           /\ metadata.t = "dict"
           /\ image_description.t \in {"str", "null"}
           /\ social_network.t \in {"str", "null"}
        THEN [raised |-> FALSE, exc |-> "",
              post |-> PostInput(text.s, metadata.d, ToOptional(image_description),
                                 ToOptional(social_network))]
        ELSE [raised |-> TRUE, exc |-> "ValidationError", post |-> NoPost]

_output_to_dict(output) ==
    [risk_level |-> output.risk_level,
     risk_score |-> Round3(output.risk_score),
     bert_score |-> Round3(output.bert_score),
     confidence |-> Round3(output.confidence),
     reasoning |-> output.reasoning,
     relevant_sources |-> output.relevant_sources,
     factors |-> output.factors]

\* result["from_cache"] = value
WithFromCache(result, value) ==
    [k \in DOMAIN result \cup {"from_cache"} |->
        IF k = "from_cache" THEN value ELSE result[k]]

\* The error output with a fixed message in place of the cause's text.
_error_output_FixedMessage(error_message) ==
    [error |-> TRUE,
     error_message |-> "Erro no processamento",
     risk_level |-> "MEDIO",
     risk_score |-> Scale \div 2,
     bert_score |-> Scale \div 2,
     confidence |-> 0,
     reasoning |-> <<"Erro no processamento: ", error_message>>,
     relevant_sources |-> <<>>,
     factors |-> EmptyDict]

_error_output(error_message) ==
    [error |-> TRUE,
     error_message |-> error_message,
     risk_level |-> "MEDIO",
     risk_score |-> Scale \div 2,
     bert_score |-> Scale \div 2,
     confidence |-> 0,
     reasoning |-> <<"Erro no processamento: ", error_message>>,
     relevant_sources |-> <<>>,
     factors |-> EmptyDict]

NewRequest(post_json) ==
    [pc |-> "parse", json |-> post_json, post_input |-> NoPost, bert_score |-> 0,
     output |-> NoVerdict, result |-> EmptyDict, exc |-> "", excStage |-> "",
     escaped |-> FALSE, faulted |-> FALSE, emptyAtStart |-> table = {},
     classify_calls |-> 0, llm_calls |-> 0, stages |-> <<>>, write |-> "not called",
     inference_raised |-> FALSE, path |-> "", tableAtStart |-> table]

Enter(r, stage) == [r EXCEPT !.stages = Append(@, stage)]

\* An except clause that hands the error verdict to the cache write.
OnException_ThenWrite(r, stage, e) ==
    IF analysis_cache /\ \A i \in DOMAIN r.stages : r.stages[i] # "CACHE_WRITE"
    THEN [r EXCEPT !.pc = "cache_write", !.exc = e, !.excStage = stage,
                   !.output = PostAnalysisOutput("MEDIO", Scale \div 2, Scale \div 2, 0,
                                                 <<"Erro no processamento: ", e>>, <<>>, EmptyDict)]
    ELSE [r EXCEPT !.pc = "done", !.exc = e, !.excStage = stage, !.escaped = FALSE,
                   !.result = _error_output(e)]

\* The except clause of process_post_json.
OnException(r, stage, e) ==
    [r EXCEPT !.pc = "done", !.exc = e, !.excStage = stage, !.escaped = FALSE,
              !.result = _error_output(e)]

ParseStage(r) ==
    LET p == _parse_post_json(r.json)
        r1 == Enter(r, "PARSE")
    IN  IF p.raised THEN OnException(r1, "PARSE", p.exc)
        ELSE [r1 EXCEPT !.post_input = p.post,
                        !.pc = IF analysis_cache THEN "cache_lookup" ELSE "classify"]

CacheLookupStage(r, fault) ==
    LET g == get_analysis(r.post_input, fault)
        r1 == [Enter(r, "CACHE_LOOKUP") EXCEPT !.faulted = @ \/ fault # "none"]
    IN  IF g.raised THEN OnException(r1, "CACHE_LOOKUP", g.exc)
        ELSE IF g.found
             THEN [r1 EXCEPT !.pc = "done",
                             !.result = WithFromCache(_output_to_dict(g.verdict), TRUE)]
             ELSE [r1 EXCEPT !.pc = "classify"]

\* The classification handing its score to the cache write, not to the agent.
ClassifyStage_WritesFirst(r, inference) ==
    [Enter(r, "CLASSIFY") EXCEPT !.classify_calls = @ + 1,
                                 !.bert_score = classify(r.post_input.text, inference),
                                 !.pc = IF analysis_cache THEN "cache_write" ELSE "analyze"]

ClassifyStage(r, inference) ==
    LET bert_score == classify(r.post_input.text, inference)
        r1 == [Enter(r, "CLASSIFY") EXCEPT !.classify_calls = @ + 1,
                                           !.inference_raised = inference.raises]
    IN  IF bert_score \in 0..Scale
        THEN [r1 EXCEPT !.bert_score = bert_score, !.pc = "analyze"]
        ELSE OnException(r1, "CLASSIFY", "ValidationError")

AnalyzeStage(r, retrieval, llm) ==
    LET analysis_input == PostAnalysisInput(r.post_input.text, r.post_input.metadata,
                                            r.post_input.image_description,
                                            r.post_input.social_network, r.bert_score)
        a == analyze(analysis_input, retrieval, llm)
        r1 == [Enter(r, "ANALYZE") EXCEPT !.llm_calls = @ + a.llm_calls, !.path = a.path]
    IN  IF a.raised THEN OnException(r1, "ANALYZE", a.exc)
        ELSE [r1 EXCEPT !.output = a.verdict,
                        !.pc = IF analysis_cache THEN "cache_write" ELSE "shape"]

\* The request after the cache write, and the table after it.
CacheWriteStage(r, fault, rollbackFails) ==
    LET w == save_analysis(r.post_input, r.output, fault, rollbackFails)
        r1 == [Enter(r, "CACHE_WRITE") EXCEPT
                  !.faulted = @ \/ fault # "none",
                  !.write = IF w.raised THEN "raised" ELSE IF w.ok THEN "True" ELSE "False"]
    IN  [req |-> IF w.raised THEN OnException(r1, "CACHE_WRITE", w.exc)
                 ELSE [r1 EXCEPT !.pc = "shape"],
         table |-> w.table,
         committed |-> w.committed]

\* The last stage marking a computed verdict as read from the cache.
ShapeStage_MarksCached(r) ==
    [Enter(r, "DONE") EXCEPT !.pc = "done",
                             !.result = WithFromCache(_output_to_dict(r.output), TRUE)]

ShapeStage(r) ==
    [Enter(r, "DONE") EXCEPT !.pc = "done",
                             !.result = WithFromCache(_output_to_dict(r.output), FALSE)]

PostJsons ==
    {[text |-> JStr(<<"A">>)],
     [text |-> JStr(<<"a", " ">>), trend |-> JStr(<<"a">>), metadata |-> JDict(Likes),
      image_description |-> JStr(<<"A">>), social_network |-> JStr(<<"A">>)],
     [metadata |-> JDict(EmptyDict)],
     [text |-> JNone],
     [text |-> JStr(<<"A">>), metadata |-> JStr(<<"a">>)]}

Init ==
    /\ analysis_cache \in BOOLEAN
    /\ pool \in {"none", "ok"}
    /\ ~analysis_cache => pool = "none"
    /\ table \in {{}, {OldRow}}
    /\ clock = 1
    /\ nextId = 2
    /\ calls = 0
    /\ last = NoCall
    /\ saved = {}
    /\ hashCall = NoHashCall
    /\ agentCall = [done |-> FALSE]
    /\ pageCall = [done |-> FALSE]
    /\ req = NoRequest
    /\ prev = NoRequest
    /\ requests = 0
    /\ ServiceIdle

nonWorkflowVars == <<pool, clock, nextId, calls, last, saved, hashCall, agentCall, pageCall,
                     analysis_cache>>

Submit ==
    /\ req.pc \in {"idle", "done"}
    /\ requests < MaxRequests
    /\ \E j \in PostJsons : req' = NewRequest(j)
    /\ prev' = req
    /\ requests' = requests + 1
    /\ UNCHANGED <<table, nonWorkflowVars, serviceVars>>

Parse ==
    /\ req.pc = "parse"
    /\ req' = ParseStage(req)
    /\ UNCHANGED <<table, prev, requests, nonWorkflowVars, serviceVars>>

CacheLookup ==
    /\ req.pc = "cache_lookup"
    /\ \E f \in Faults \ {"commit"} : req' = CacheLookupStage(req, f)
    /\ UNCHANGED <<table, prev, requests, nonWorkflowVars, serviceVars>>

Classify ==
    /\ req.pc = "classify"
    /\ \E i \in Inferences : req' = ClassifyStage(req, i)
    /\ UNCHANGED <<table, prev, requests, nonWorkflowVars, serviceVars>>

Analyze ==
    /\ req.pc = "analyze"
    /\ \E r \in Retrievals, l \in LlmOutcomes : req' = AnalyzeStage(req, r, l)
    /\ UNCHANGED <<table, prev, requests, nonWorkflowVars, serviceVars>>

CacheWrite ==
    /\ req.pc = "cache_write"
    /\ \E f \in Faults, rb \in BOOLEAN :
         LET w == CacheWriteStage(req, f, rb) IN
         /\ f \in {"none", "getconn"} => ~rb
         /\ req' = w.req
         /\ table' = w.table
         /\ clock' = IF w.committed THEN clock + 1 ELSE clock
         /\ nextId' = IF Cardinality(w.table) > Cardinality(table) THEN nextId + 1 ELSE nextId
    /\ UNCHANGED <<prev, requests, pool, calls, last, saved, hashCall, agentCall, pageCall,
                   analysis_cache, serviceVars>>

Shape ==
    /\ req.pc = "shape"
    /\ req' = ShapeStage(req)
    /\ UNCHANGED <<table, prev, requests, nonWorkflowVars, serviceVars>>

Next == Submit \/ Parse \/ CacheLookup \/ Classify \/ Analyze \/ CacheWrite \/ Shape

Spec == Init /\ [][Next]_vars

HasKey(dict, key) == key \in DOMAIN dict

Done(r) == r.pc = "done"

\* The cache is enabled and its storage answered every call of the request.
StorageReachable(r) == analysis_cache /\ pool = "ok" /\ ~r.faulted

ScoredFields(result) ==
    <<result.risk_level, result.risk_score, result.bert_score, result.confidence>>

\* C1: with the cache enabled and its storage reachable, the first request for
\* a post that has no cache entry answers from_cache = false, and the next
\* request with the same input answers from_cache = true with the same
\* risk_level, risk_score, bert_score and confidence.
C1_SecondRequestFromCache ==
    (Done(req) /\ StorageReachable(req) /\ ~_parse_post_json(req.json).raised) =>
        /\ (prev = NoRequest /\ req.emptyAtStart) =>
              HasKey(req.result, "from_cache") /\ req.result.from_cache = FALSE
        /\ (prev # NoRequest /\ prev.json = req.json /\ prev.emptyAtStart
              /\ StorageReachable(prev)) =>
              /\ HasKey(req.result, "from_cache") /\ req.result.from_cache = TRUE
              /\ ScoredFields(req.result) = ScoredFields(prev.result)

\* C3: an exception raised at any stage of process_post_json ends the request
\* in the error output: error = true, error_message = the cause's text,
\* risk_level MEDIO, risk_score 0.5, confidence 0.0; nothing reaches the caller.
C3_ErrorOutput ==
    \A r \in {req, prev} :
        (r # NoRequest /\ r.excStage # "") =>
            /\ Done(r)
            /\ ~r.escaped
            /\ HasKey(r.result, "error") /\ r.result.error = TRUE
            /\ r.result.error_message = r.exc
            /\ r.result.risk_level = "MEDIO"
            /\ r.result.risk_score = 500000
            /\ r.result.confidence = 0

\* A request failed in the cache lookup after one failed in the parse.
C3_Witness ==
    /\ prev # NoRequest /\ prev.excStage = "PARSE"
    /\ Done(req) /\ req.excStage = "CACHE_LOOKUP"
    /\ req.result.error_message = "AttributeError"

(***************************************************************************)
(* The workflow and the cache write.                                       *)
(***************************************************************************)
\* save_analysis was called in the request and did not store the verdict.
CacheWriteFailed(r) == r.write \in {"False", "raised"}

\* C11: a request whose cache write failed still returns the agent's verdict,
\* with from_cache = false and without the error flag.
C11_WriteBestEffort ==
    \A r \in {req, prev} :
        (Done(r) /\ CacheWriteFailed(r)) =>
            /\ ~HasKey(r.result, "error")
            /\ r.result = WithFromCache(_output_to_dict(r.output), FALSE)
            /\ r.result.from_cache = FALSE

\* A request computed a verdict, its write returned False, and it answered.
C11_Witness ==
    /\ Done(req) /\ req.write = "False"
    /\ req.llm_calls = 1
    /\ HasKey(req.result, "from_cache") /\ ~HasKey(req.result, "error")

(***************************************************************************)
(* The entry points of the core: FakeNewsWorkflow.process_post_json and    *)
(* process_post_json_string (workflow.py), analyze_post and                *)
(* analyze_post_from_json_string (main.py).                                *)
(***************************************************************************)
MaxTokens == 5

\* A JSON text is a sequence of tokens; the one string literal is "text".
JsonTokens == {"{", "}", "[", ":", "\"text\"", "null"}

RECURSIVE Texts(_)
Texts(n) ==
    IF n = 0 THEN {<<>>}
    ELSE Texts(n - 1) \cup {Append(t, c) : t \in {u \in Texts(n - 1) : Len(u) = n - 1}, c \in JsonTokens}

JsonTexts == Texts(MaxTokens)

IsStringToken(tok) == tok = "\"text\""

\* The characters between the quotes of a string token.
StringValue(tok) == <<"t", "e", "x", "t">>

LoadsResult(raised, exc, value) == [raised |-> raised, exc |-> exc, value |-> value]

JSONDecodeError == LoadsResult(TRUE, "JSONDecodeError", JNone)

\* json.loads on the texts of this grammar:
\*   value ::= string | null | { } | { string : value }
\* ("[" never closes, so a text that holds one is malformed).
RECURSIVE json_loads(_)
json_loads(s) ==
    IF Len(s) = 0 THEN JSONDecodeError
    ELSE IF Len(s) = 1
         THEN IF IsStringToken(s[1]) THEN LoadsResult(FALSE, "", JStr(StringValue(s[1])))
              ELSE IF s[1] = "null" THEN LoadsResult(FALSE, "", JNone)
              ELSE JSONDecodeError
    ELSE IF s[1] = "{" /\ s[Len(s)] = "}"
         THEN IF Len(s) = 2 THEN LoadsResult(FALSE, "", JDict(EmptyDict))
              ELSE IF Len(s) >= 5 /\ IsStringToken(s[2]) /\ s[3] = ":"
                   THEN LET member == json_loads(SubSeq(s, 4, Len(s) - 1)) IN
                        IF member.raised THEN JSONDecodeError
                        ELSE LoadsResult(FALSE, "", JDict([k \in {"text"} |-> member.value]))
                   ELSE JSONDecodeError
    ELSE JSONDecodeError

\* What the collaborators do during one request.
Envs ==
    [lookup : Faults \ {"commit"}, inference : Inferences, retrieval : Retrievals,
     llm : LlmOutcomes, write : Faults, rollbackFails : BOOLEAN]

CallResult(raised, exc, result, tbl) ==
    [raised |-> raised, exc |-> exc, result |-> result, table |-> tbl]

\* A stage runs when the request has reached it, and is skipped otherwise.
ThenCacheLookup(r, env) ==
    IF r.pc = "cache_lookup" THEN CacheLookupStage(r, env.lookup) ELSE r

ThenClassify(r, env) ==
    IF r.pc = "classify" THEN ClassifyStage(r, env.inference) ELSE r

ThenAnalyze(r, env) ==
    IF r.pc = "analyze" THEN AnalyzeStage(r, env.retrieval, env.llm) ELSE r

ThenCacheWrite(r, env) ==
    IF r.pc = "cache_write" THEN CacheWriteStage(r, env.write, env.rollbackFails)
    ELSE [req |-> r, table |-> table, committed |-> FALSE]

ThenShape(w) ==
    CallResult(FALSE, "", IF w.req.pc = "shape" THEN ShapeStage(w.req).result ELSE w.req.result,
               w.table)

\* process_post_json from its first stage to its return value.
process_post_json(post_json, env) ==
    ThenShape(ThenCacheWrite(ThenAnalyze(ThenClassify(ThenCacheLookup(
        ParseStage(NewRequest(post_json)), env), env), env), env))

\* process_post_json on a value that is not a dict: post_json.get raises
\* AttributeError inside the try.
process_post_json_value(value, env) ==
    IF value.t = "dict" THEN process_post_json(value.d, env)
    ELSE CallResult(FALSE, "", _error_output("AttributeError"), table)

\* json.loads is called before process_post_json, outside any try.
process_post_json_string(post_json_str, env) ==
    LET post_json == json_loads(post_json_str) IN
    IF post_json.raised THEN CallResult(TRUE, post_json.exc, EmptyDict, table)
    ELSE process_post_json_value(post_json.value, env)

\* create_workflow: BERTClassifier.__init__ re-raises when the model fails to load.
create_workflow(modelLoads) ==
    IF modelLoads THEN [raised |-> FALSE, exc |-> ""] ELSE [raised |-> TRUE, exc |-> "OSError"]

\* main.analyze_post
analyze_post(post_json, wf, modelLoads, env) ==
    LET created == IF wf = "none" THEN create_workflow(modelLoads)
                   ELSE [raised |-> FALSE, exc |-> ""] IN
    IF created.raised THEN CallResult(TRUE, created.exc, EmptyDict, table)
    ELSE process_post_json(post_json, env)

\* main.analyze_post_from_json_string
analyze_post_from_json_string(post_json_str, wf, modelLoads, env) ==
    LET created == IF wf = "none" THEN create_workflow(modelLoads)
                   ELSE [raised |-> FALSE, exc |-> ""] IN
    IF created.raised THEN CallResult(TRUE, created.exc, EmptyDict, table)
    ELSE process_post_json_string(post_json_str, env)

EntryCall(entry, text, json) ==
    [done |-> FALSE, entry |-> entry, text |-> text, json |-> json,
     raised |-> FALSE, exc |-> "", result |-> EmptyDict]

InitEntry ==
    /\ \/ analysis_cache = TRUE /\ pool = "ok"
       \/ analysis_cache = FALSE /\ pool = "none"
    /\ table = {}
    /\ clock = 1
    /\ nextId = 1
    /\ calls = 0
    /\ last = NoCall
    /\ saved = {}
    /\ hashCall = NoHashCall
    /\ agentCall = [done |-> FALSE]
    /\ pageCall = [done |-> FALSE]
    /\ req = NoRequest
    /\ prev = NoRequest
    /\ requests = 0
    /\ apiCall = [done |-> FALSE]
    /\ embeddings = "ok"
    /\ noticiasrag = <<>>
    /\ vecCall = [done |-> FALSE]
    /\ used = {}
    /\ thread = <<>>
    /\ workers = <<>>
    /\ \/ /\ workflow = "ok"
          /\ \E j \in PostJsons : entryCall = EntryCall("process_post_json", <<>>, j)
       \/ /\ workflow = "ok"
          /\ \E t \in JsonTexts : entryCall = EntryCall("process_post_json_string", t, EmptyDict)
       \/ /\ workflow \in {"none", "ok"}
          /\ \E j \in PostJsons : entryCall = EntryCall("analyze_post", <<>>, j)
       \/ /\ workflow \in {"none", "ok"}
          /\ \E t \in JsonTexts :
                entryCall = EntryCall("analyze_post_from_json_string", t, EmptyDict)

\* The call raises before process_post_json is entered.
RaisesBeforeWorkflow(c, modelLoads) ==
    \/ c.entry \in {"analyze_post", "analyze_post_from_json_string"}
          /\ workflow = "none" /\ ~modelLoads
    \/ c.entry \in {"process_post_json_string", "analyze_post_from_json_string"}
          /\ json_loads(c.text).raised

\* env and modelLoads are read only on the paths that reach them.
Call(c, modelLoads, env) ==
    CASE c.entry = "process_post_json" -> process_post_json(c.json, env)
      [] c.entry = "process_post_json_string" -> process_post_json_string(c.text, env)
      [] c.entry = "analyze_post" -> analyze_post(c.json, workflow, modelLoads, env)
      [] c.entry = "analyze_post_from_json_string" ->
            analyze_post_from_json_string(c.text, workflow, modelLoads, env)

Finish(c, out) ==
    [c EXCEPT !.done = TRUE, !.raised = out.raised, !.exc = out.exc, !.result = out.result]

EntryRaises ==
    /\ ~entryCall.done
    /\ \E modelLoads \in BOOLEAN :
          /\ RaisesBeforeWorkflow(entryCall, modelLoads)
          /\ entryCall' = Finish(entryCall, Call(entryCall, modelLoads, CHOOSE e \in Envs : TRUE))
    /\ UNCHANGED <<pool, table, clock, nextId, calls, last, saved, hashCall, agentCall, pageCall,
                   workflowVars, workflow, apiCall, embeddings, noticiasrag, vecCall, used,
                   thread, workers>>

EntryAnswers ==
    /\ ~entryCall.done
    /\ ~RaisesBeforeWorkflow(entryCall, TRUE)
    /\ \E env \in Envs :
          LET out == Call(entryCall, TRUE, env) IN
          /\ entryCall' = Finish(entryCall, out)
          /\ table' = out.table
    /\ UNCHANGED <<pool, clock, nextId, calls, last, saved, hashCall, agentCall, pageCall,
                   workflowVars, workflow, apiCall, embeddings, noticiasrag, vecCall, used,
                   thread, workers>>

NextEntry == EntryRaises \/ EntryAnswers

SpecEntry == InitEntry /\ [][NextEntry]_vars

\* C12: every entry point returns a verdict for every input and propagates no
\* exception; the worst output is the MEDIO error verdict with confidence 0.
C12_AlwaysAnswers ==
    entryCall.done =>
        /\ ~entryCall.raised
        /\ HasKey(entryCall.result, "risk_level")
        /\ HasKey(entryCall.result, "error") =>
              /\ entryCall.result.risk_level = "MEDIO"
              /\ entryCall.result.confidence = 0

(***************************************************************************)
(* The HTTP layer (api.py) over the workflow and the cache's read queries  *)
(* (analysis_cache.py: get_posts_by_trend, get_post_by_id).                *)
(***************************************************************************)
\* SELECT ... WHERE trend = %s ORDER BY created_at DESC LIMIT %s, as row ids.
SelectTrend(trend, limit) ==
    LET rows == {r \in table : r.trend = Some(trend)}
        rank == [r \in rows |-> Cardinality({q \in rows : q.created_at > r.created_at})]
        n == Min(limit, Cardinality(rows))
    IN  [j \in 1..n |-> (CHOOSE r \in rows : rank[r] = j - 1).id]

\* A negative LIMIT is an error of the query, which the except turns into [].
get_posts_by_trend(trend, limit, fault) ==
    IF pool = "none" THEN <<>>
    ELSE IF fault \in {"getconn", "execute"} \/ limit < 0 THEN <<>>
    ELSE SelectTrend(trend, limit)

\* [none, row]: None, or dict(row).
get_post_by_id(post_id, fault) ==
    IF pool = "none" THEN [none |-> TRUE, row |-> OldRow]
    ELSE IF fault \in {"getconn", "execute"} THEN [none |-> TRUE, row |-> OldRow]
    ELSE LET rows == {r \in table : r.id = post_id} IN
         IF rows = {} THEN [none |-> TRUE, row |-> OldRow]
         ELSE [none |-> FALSE, row |-> CHOOSE r \in rows : TRUE]

\* An HTTP response: the status, and the body or the HTTPException's detail.
Response(status, body) == [status |-> status, body |-> body]

NoBody == EmptyDict

\* POST /analyze
api_analyze_post(post_json, env) ==
    IF workflow = "none" THEN Response(503, NoBody)
    ELSE LET out == process_post_json(post_json, env) IN
         IF out.raised THEN Response(500, NoBody) ELSE Response(200, out.result)

\* GET /posts/trend/{trend}
api_get_posts_by_trend(trend, limit, fault) ==
    IF workflow = "none" \/ ~analysis_cache THEN Response(503, NoBody)
    ELSE Response(200, [ids |-> get_posts_by_trend(trend, Min(limit, 1000), fault)])

\* GET /posts/{post_id}
api_get_post_by_id(post_id, fault) ==
    IF workflow = "none" \/ ~analysis_cache THEN Response(503, NoBody)
    ELSE LET post == get_post_by_id(post_id, fault) IN
         IF post.none THEN Response(404, NoBody) ELSE Response(200, post.row)

\* GET /posts
api_get_posts(page, limit, fault) ==
    IF workflow = "none" \/ ~analysis_cache THEN Response(503, NoBody)
    ELSE Response(200, get_posts_paginated(page, limit, fault))

TrendRow(i, trend) ==
    [StoredRow(i) EXCEPT !.trend = trend,
                         !.post_hash = [@ EXCEPT !.trend = IF trend.none THEN <<>> ELSE trend.val]]

ApiTables ==
    {{},
     {TrendRow(1, Some(<<"a">>))},
     {TrendRow(1, Some(<<"a">>)), TrendRow(2, None), TrendRow(3, Some(<<"a">>))}}

PostIds == {0, 1, 2, 7}
Trends == {<<"a">>, <<"b">>}
TrendLimits == {-1, 0, 1, 100, 5000}

ApiCall(endpoint, post_id, fault, response) ==
    [done |-> TRUE, endpoint |-> endpoint, post_id |-> post_id, fault |-> fault,
     response |-> response]

InitApi ==
    /\ workflow \in {"none", "ok"}
    /\ analysis_cache \in BOOLEAN
    /\ pool \in {"none", "ok"}
    /\ workflow = "none" => ~analysis_cache
    /\ ~analysis_cache => pool = "none"
    /\ \E t \in ApiTables :
          table = t /\ nextId = Cardinality(t) + 1 /\ clock = Cardinality(t) + 1
    /\ calls = 0
    /\ last = NoCall
    /\ saved = {}
    /\ hashCall = NoHashCall
    /\ agentCall = [done |-> FALSE]
    /\ pageCall = [done |-> FALSE]
    /\ req = NoRequest
    /\ prev = NoRequest
    /\ requests = 0
    /\ apiCall = [done |-> FALSE]
    /\ entryCall = [done |-> FALSE]
    /\ embeddings = "ok"
    /\ noticiasrag = <<>>
    /\ vecCall = [done |-> FALSE]
    /\ used = {}
    /\ thread = <<>>
    /\ workers = <<>>

apiUnchanged == <<pool, clock, nextId, calls, last, saved, hashCall, agentCall, pageCall,
                  workflowVars, workflow, entryCall, embeddings, noticiasrag, vecCall, used,
                  thread, workers>>

ApiAnalyzePost ==
    /\ ~apiCall.done
    /\ \E j \in PostJsons, env \in Envs :
          /\ apiCall' = ApiCall("analyze_post", 0, "none", api_analyze_post(j, env))
          /\ table' = IF workflow = "none" THEN table ELSE process_post_json(j, env).table
    /\ UNCHANGED apiUnchanged

ApiGetPostsByTrend ==
    /\ ~apiCall.done
    /\ \E t \in Trends, l \in TrendLimits, f \in Faults \ {"commit"} :
          apiCall' = ApiCall("get_posts_by_trend", 0, f, api_get_posts_by_trend(t, l, f))
    /\ UNCHANGED <<table, apiUnchanged>>

ApiGetPostById ==
    /\ ~apiCall.done
    /\ \E i \in PostIds, f \in Faults \ {"commit"} :
          apiCall' = ApiCall("get_post_by_id", i, f, api_get_post_by_id(i, f))
    /\ UNCHANGED <<table, apiUnchanged>>

ApiGetPosts ==
    /\ ~apiCall.done
    /\ \E pg \in Pages, l \in Limits, f \in Faults \ {"commit"} :
          apiCall' = ApiCall("get_posts", 0, f, api_get_posts(pg, l, f))
    /\ UNCHANGED <<table, apiUnchanged>>

NextApi == ApiAnalyzePost \/ ApiGetPostsByTrend \/ ApiGetPostById \/ ApiGetPosts

SpecApi == InitApi /\ [][NextApi]_vars

\* The endpoint's backing object (the workflow; the cache for the listing
\* endpoints) was never initialised.
NotInitialized(c) ==
    workflow = "none" \/ (c.endpoint # "analyze_post" /\ ~analysis_cache)

\* C13: an endpoint answers 503 when its workflow or cache was never
\* initialised; GET /posts/{id} answers 404 exactly when no record has that
\* id, and 500 on any other failure, a storage error while fetching included.
C13_StatusMapping ==
    apiCall.done =>
        /\ NotInitialized(apiCall) <=> apiCall.response.status = 503
        /\ (apiCall.endpoint = "get_post_by_id" /\ ~NotInitialized(apiCall)) =>
              /\ apiCall.response.status = 404 <=> ~\E r \in table : r.id = apiCall.post_id
              /\ (pool = "ok" /\ apiCall.fault # "none") => apiCall.response.status = 500

(***************************************************************************)
(* The trend of a submitted post.                                          *)
(***************************************************************************)
\* The request body carries a trend string.
SubmittedWithTrend(r) == HasKey(r.json, "trend") /\ r.json.trend.t = "str"

\* C14: a valid post submitted to process_post_json with a trend T, the cache
\* enabled and its storage reachable, is stored with trend T, so that
\* get_posts_by_trend(T) returns a record for it.
C14_TrendStored ==
    (/\ Done(req)
     /\ StorageReachable(req)
     /\ SubmittedWithTrend(req)
     /\ ~_parse_post_json(req.json).raised) =>
        /\ \E r \in table : r.trend = Some(req.json.trend.s) /\ r.post_text = req.json.text.s
        /\ Len(get_posts_by_trend(req.json.trend.s, 100, "none")) > 0

(***************************************************************************)
(* vector_db.py: VectorDB over the table noticiasrag.                      *)
(***************************************************************************)
MaxVecCalls == 2

\* The metadata column: a JSON object (with or without "source"; a source
\* that is a JSON array is an unhashable list in Python), NULL, or a JSON
\* value that is not an object.
MetaDict(source, hashable) == [kind |-> "dict", source |-> source, hashable |-> hashable]
MetaNull == [kind |-> "null", source |-> None, hashable |-> TRUE]
MetaArray == [kind |-> "array", source |-> None, hashable |-> TRUE]

\* A row of noticiasrag; distance is embedding <=> query.
VecRow(id, document, metadata, embedded, distance) ==
    [id |-> id, document |-> document, metadata |-> metadata, embedded |-> embedded,
     distance |-> distance]

\* langchain's Document(page_content, metadata)
Document(page_content, metadata) == [page_content |-> page_content, metadata |-> metadata]

\* The behaviour of the embedding model and of the database during a search.
SearchFaults == {"none", "embed", "connect", "execute"}

VecResult(raised, exc, value) == [raised |-> raised, exc |-> exc, value |-> value]

\* WHERE embedding IS NOT NULL ORDER BY embedding <=> query LIMIT k
SelectSimilar(k) ==
    LET rows == {i \in 1..Len(noticiasrag) : noticiasrag[i].embedded}
        rank == [i \in rows |->
                    Cardinality({j \in rows :
                        \/ noticiasrag[j].distance < noticiasrag[i].distance
                        \/ noticiasrag[j].distance = noticiasrag[i].distance /\ j < i})]
        n == Min(Max(k, 0), Cardinality(rows))
    IN  [j \in 1..n |-> noticiasrag[CHOOSE i \in rows : rank[i] = j - 1]]

\* The documents of the selected rows; Document rejects a metadata that is not a dict.
RowToDocument(row) ==
    Document(IF Truthy(row.document) THEN row.document.val ELSE <<>>,
             IF row.metadata.kind = "null" THEN MetaDict(None, TRUE) ELSE row.metadata)

\* search_similar whose try covers the query only: embed_query and connect are outside.
search_similar_Uncaught(query, k, fault) ==
    IF embeddings = "none" THEN VecResult(FALSE, "", <<>>)
    ELSE IF fault = "embed" THEN VecResult(TRUE, "RuntimeError", <<>>)
    ELSE IF fault = "connect" THEN VecResult(TRUE, "OperationalError", <<>>)
    ELSE IF fault = "execute" THEN VecResult(FALSE, "", <<>>)
    ELSE LET rows == SelectSimilar(k) IN
         IF \E j \in 1..Len(rows) : rows[j].metadata.kind = "array"
         THEN VecResult(FALSE, "", <<>>)
         ELSE VecResult(FALSE, "", [j \in 1..Len(rows) |-> RowToDocument(rows[j])])

search_similar(query, k, fault) ==
    IF embeddings = "none" THEN VecResult(FALSE, "", <<>>)
    ELSE IF fault # "none" THEN VecResult(FALSE, "", <<>>)
    ELSE LET rows == SelectSimilar(k) IN
         IF \E j \in 1..Len(rows) : rows[j].metadata.kind = "array"
         THEN VecResult(FALSE, "", <<>>)
         ELSE VecResult(FALSE, "", [j \in 1..Len(rows) |-> RowToDocument(rows[j])])

\* "Nenhuma notícia confiável similar encontrada no banco de dados." (accents dropped)
NoResultsContext == <<"Nenhuma noticia confiavel similar encontrada no banco de dados.">>

UnknownSource == <<"Fonte desconhecida">>

\* metadata.get("source", "Fonte desconhecida")
SourceOf(doc) ==
    IF doc.metadata.source.none THEN UnknownSource ELSE doc.metadata.source.val

Digits == <<"1", "2", "3", "4", "5", "6", "7", "8", "9">>

RECURSIVE JoinLines(_)
JoinLines(parts) ==
    IF Len(parts) = 0 THEN <<>>
    ELSE IF Len(parts) = 1 THEN parts[1]
    ELSE parts[1] \o <<"\n">> \o JoinLines(Tail(parts))

\* The text is a sequence of pieces.
get_context(query, k, fault) ==
    LET found == search_similar(query, k, fault) IN
    IF found.raised THEN found
    ELSE IF found.value = <<>> THEN VecResult(FALSE, "", NoResultsContext)
    ELSE VecResult(FALSE, "",
            JoinLines([i \in 1..Len(found.value) |->
                <<"[Fonte ", Digits[i], ": ">> \o SourceOf(found.value[i]) \o <<"]\n">>
                    \o found.value[i].page_content \o <<"\n">>]))

RECURSIVE DistinctSources(_, _)
DistinctSources(documents, seen) ==
    IF documents = <<>> THEN <<>>
    ELSE LET source == SourceOf(documents[1]) IN
         IF source \in seen THEN DistinctSources(Tail(documents), seen)
         ELSE <<source>> \o DistinctSources(Tail(documents), seen \cup {source})

\* "source not in seen" raises TypeError for a source that is a list.
get_sources(query, k, fault) ==
    LET found == search_similar(query, k, fault) IN
    IF found.raised THEN found
    ELSE IF \E j \in 1..Len(found.value) : ~found.value[j].metadata.hashable
         THEN VecResult(TRUE, "TypeError", <<>>)
         ELSE VecResult(FALSE, "", DistinctSources(found.value, {}))

\* The behaviour of the embedding model and of the database during add_documents:
\* the step that raises (at: the document it raises on) and whether
\* conn.rollback() raises as well.
AddFault(stage, at, rollbackFails) == [stage |-> stage, at |-> at, rollbackFails |-> rollbackFails]

AddFaults ==
    {AddFault("none", 0, FALSE), AddFault("connect", 0, FALSE)}
    \cup {AddFault(st, at, rb) : st \in {"embed", "execute"}, at \in 1..2, rb \in BOOLEAN}
    \cup {AddFault("commit", 0, rb) : rb \in BOOLEAN}

\* The number of documents inserted before the call raises; -1 when nothing is reached.
InsertedBeforeFailure(documents, fault) ==
    CASE fault.stage \in {"embed", "execute"} /\ fault.at <= Len(documents) -> fault.at - 1
      [] fault.stage = "commit" -> Len(documents)
      [] OTHER -> -1

AddRaises(documents, fault) ==
    \/ fault.stage = "connect"
    \/ InsertedBeforeFailure(documents, fault) >= 0

\* str(result[0])
Str(n) == [str |-> n]

NextVecId == Len(noticiasrag) + 1

NewVecRows(documents, n) ==
    [i \in 1..n |-> VecRow(NextVecId + i - 1, Some(documents[i].page_content),
                           documents[i].metadata, TRUE, 0)]

\* add_documents: [raised, exc, value (the ids), table]
AddResult(raised, exc, value, tbl) ==
    [raised |-> raised, exc |-> exc, value |-> value, table |-> tbl]

\* add_documents on an autocommit connection: the rows inserted before a failure stay.
add_documents_Autocommit(documents, fault) ==
    IF embeddings = "none" THEN AddResult(FALSE, "", <<>>, noticiasrag)
    ELSE IF fault.stage = "connect" THEN AddResult(FALSE, "", <<>>, noticiasrag)
    ELSE IF AddRaises(documents, fault)
         THEN AddResult(FALSE, "", <<>>,
                        noticiasrag \o NewVecRows(documents, InsertedBeforeFailure(documents, fault)))
    ELSE AddResult(FALSE, "",
                   [i \in 1..Len(documents) |-> Str(NextVecId + i - 1)],
                   noticiasrag \o NewVecRows(documents, Len(documents)))

\* A failing rollback raises inside the inner except; the outer except catches it,
\* and the closed connection's transaction is discarded.
add_documents(documents, fault) ==
    IF embeddings = "none" THEN AddResult(FALSE, "", <<>>, noticiasrag)
    ELSE IF AddRaises(documents, fault) THEN AddResult(FALSE, "", <<>>, noticiasrag)
    ELSE AddResult(FALSE, "",
                   [i \in 1..Len(documents) |-> Str(NextVecId + i - 1)],
                   noticiasrag \o NewVecRows(documents, Len(documents)))

G1 == Some(<<"g1">>)

VecTables ==
    {<<>>,
     <<VecRow(1, Some(<<"n1">>), MetaDict(G1, TRUE), TRUE, 2),
       VecRow(2, None, MetaNull, TRUE, 1),
       VecRow(3, Some(<<"n3">>), MetaDict(G1, TRUE), TRUE, 3),
       VecRow(4, Some(<<"n4">>), MetaDict(None, TRUE), FALSE, 0)>>,
     <<VecRow(1, Some(<<"n1">>), MetaDict(G1, TRUE), TRUE, 2),
       VecRow(2, Some(<<"n2">>), MetaArray, TRUE, 3)>>,
     <<VecRow(1, Some(<<"n1">>), MetaDict(Some(<<"g1", "folha">>), FALSE), TRUE, 1)>>}

NewDocuments ==
    {Document(<<"d1">>, MetaDict(G1, TRUE)), Document(<<"d2">>, MetaDict(None, TRUE))}

DocumentLists ==
    {<<>>} \cup {<<d>> : d \in NewDocuments} \cup {<<d, e>> : d \in NewDocuments, e \in NewDocuments}

Ks == {0, 1, 3, 5}

VecCall(op, k, documents, fault, before, result) ==
    [done |-> TRUE, op |-> op, k |-> k, documents |-> documents, fault |-> fault,
     before |-> before, result |-> result]

InitVector ==
    /\ embeddings \in {"none", "ok"}
    /\ noticiasrag \in VecTables
    /\ vecCall = [done |-> FALSE]
    /\ calls = 0
    /\ pool = "none"
    /\ table = {}
    /\ clock = 1
    /\ nextId = 1
    /\ last = NoCall
    /\ saved = {}
    /\ hashCall = NoHashCall
    /\ agentCall = [done |-> FALSE]
    /\ pageCall = [done |-> FALSE]
    /\ WorkflowIdle
    /\ workflow = "ok"
    /\ apiCall = [done |-> FALSE]
    /\ entryCall = [done |-> FALSE]
    /\ used = {}
    /\ thread = <<>>
    /\ workers = <<>>

vecUnchanged == <<pool, table, clock, nextId, last, saved, hashCall, agentCall, pageCall,
                  workflowVars, workflow, apiCall, entryCall, embeddings, used, thread, workers>>

Query == <<"q">>

SearchSimilar ==
    /\ calls < MaxVecCalls
    /\ \E k \in Ks, f \in SearchFaults :
          vecCall' = VecCall("search_similar", k, <<>>, AddFault(f, 0, FALSE), noticiasrag,
                             search_similar(Query, k, f))
    /\ calls' = calls + 1
    /\ UNCHANGED <<noticiasrag, vecUnchanged>>

GetContext ==
    /\ calls < MaxVecCalls
    /\ \E k \in Ks, f \in SearchFaults :
          vecCall' = VecCall("get_context", k, <<>>, AddFault(f, 0, FALSE), noticiasrag,
                             get_context(Query, k, f))
    /\ calls' = calls + 1
    /\ UNCHANGED <<noticiasrag, vecUnchanged>>

GetSources ==
    /\ calls < MaxVecCalls
    /\ \E k \in Ks, f \in SearchFaults :
          vecCall' = VecCall("get_sources", k, <<>>, AddFault(f, 0, FALSE), noticiasrag,
                             get_sources(Query, k, f))
    /\ calls' = calls + 1
    /\ UNCHANGED <<noticiasrag, vecUnchanged>>

AddDocuments ==
    /\ calls < MaxVecCalls
    /\ \E ds \in DocumentLists, f \in AddFaults :
          LET r == add_documents(ds, f) IN
          /\ vecCall' = VecCall("add_documents", 0, ds, f, noticiasrag,
                                VecResult(r.raised, r.exc, r.value))
          /\ noticiasrag' = r.table
    /\ calls' = calls + 1
    /\ UNCHANGED vecUnchanged

NextVector == SearchSimilar \/ GetContext \/ GetSources \/ AddDocuments

SpecVector == InitVector /\ [][NextVector]_vars

\* The backend was unavailable, or a step of the call failed.
VecFailed(c) ==
    \/ embeddings = "none"
    \/ IF c.op = "add_documents" THEN AddRaises(c.documents, c.fault)
       ELSE c.fault.stage # "none"

\* C16: with the embedding backend unavailable, or a step of the search
\* failing, search_similar returns [], get_context the fixed no-results
\* string, get_sources [] and add_documents []; none of them raises.
C16_DegradesToEmpty ==
    (vecCall.done /\ VecFailed(vecCall)) =>
        /\ ~vecCall.result.raised
        /\ vecCall.result.value =
              IF vecCall.op = "get_context" THEN NoResultsContext ELSE <<>>

\* Each of the four operations has degraded: here a failing connection under get_context.
C16_Witness ==
    /\ vecCall.done /\ vecCall.op = "get_context"
    /\ embeddings = "ok" /\ vecCall.fault.stage = "connect"
    /\ Len(noticiasrag) > 0
    /\ vecCall.result.value = NoResultsContext

\* C17: add_documents is all-or-nothing: when embedding or inserting a document
\* fails, no document of the call remains and the call returns []; when all
\* succeed, every document is inserted and the ids come back in input order.
C17_AllOrNothing ==
    (vecCall.done /\ vecCall.op = "add_documents") =>
        LET ds == vecCall.documents
            n0 == Len(vecCall.before)
        IN  IF VecFailed(vecCall)
            THEN noticiasrag = vecCall.before /\ vecCall.result.value = <<>>
            ELSE /\ Len(noticiasrag) = n0 + Len(ds)
                 /\ SubSeq(noticiasrag, 1, n0) = vecCall.before
                 /\ Len(vecCall.result.value) = Len(ds)
                 /\ \A i \in 1..Len(ds) :
                       /\ noticiasrag[n0 + i].document = Some(ds[i].page_content)
                       /\ noticiasrag[n0 + i].metadata = ds[i].metadata
                       /\ vecCall.result.value[i] = Str(noticiasrag[n0 + i].id)

\* The second of two documents failed after the first was inserted, and a
\* call of two documents succeeded.
C17_Witness ==
    /\ vecCall.done /\ vecCall.op = "add_documents"
    /\ Len(vecCall.documents) = 2
    /\ vecCall.fault.stage = "execute" /\ vecCall.fault.at = 2 /\ vecCall.fault.rollbackFails
    /\ noticiasrag = vecCall.before
    /\ Len(noticiasrag) = 2
    /\ noticiasrag[1].id = 1 /\ noticiasrag[2].id = 2 /\ noticiasrag[2].distance = 0

(***************************************************************************)
(* The from_cache flag of a result.                                        *)
(***************************************************************************)
\* The request ended in the cache lookup with a verdict read from the cache.
ReadFromCache(r) ==
    r.excStage = "" /\ r.stages = <<"PARSE", "CACHE_LOOKUP">>

\* The verdict was computed by the classifier and the agent in this request.
ComputedHere(r) ==
    r.excStage = "" /\ r.classify_calls = 1 /\ r.stages[Len(r.stages)] = "DONE"

\* C18: a result that is not the error output carries a boolean from_cache,
\* true exactly when the verdict was read from the cache and false exactly
\* when it was computed in this request; the error output has no from_cache.
C18_FromCacheFlag ==
    \A r \in {req, prev} :
        Done(r) =>
            IF HasKey(r.result, "error")
            THEN ~HasKey(r.result, "from_cache")
            ELSE /\ HasKey(r.result, "from_cache")
                 /\ r.result.from_cache \in BOOLEAN
                 /\ r.result.from_cache <=> ReadFromCache(r)
                 /\ ~r.result.from_cache <=> ComputedHere(r)

\* An error output without the key, then a computed verdict with from_cache = false.
C18_Witness ==
    /\ Done(prev) /\ HasKey(prev.result, "error") /\ ~HasKey(prev.result, "from_cache")
    /\ Done(req) /\ ComputedHere(req)
    /\ HasKey(req.result, "from_cache") /\ req.result.from_cache = FALSE

\* C19: a request body without the text field is answered with the error
\* verdict (error = true), never with an ordinary verdict.
C19_MissingTextRejected ==
    (Done(req) /\ ~HasKey(req.json, "text")) =>
        /\ HasKey(req.result, "error")
        /\ ~HasKey(req.result, "from_cache")

(***************************************************************************)
(* The cache's connection pool under concurrent callers: each thread runs  *)
(* one read operation of AnalysisCache (conn = self._get_connection() in   *)
(* the try, the query, self._return_connection(conn) in the finally).      *)
(***************************************************************************)
MaxThreads == 6

\* ThreadedConnectionPool(minconn=1, maxconn=5, ...)
maxconn == 5

Threads == 1..MaxThreads

InitPool ==
    /\ pool = "ok"
    /\ used = {}
    /\ thread = [t \in Threads |-> "idle"]
    /\ workers = <<>>
    /\ table = {OldRow}
    /\ clock = 1
    /\ nextId = 2
    /\ calls = 0
    /\ last = NoCall
    /\ saved = {}
    /\ hashCall = NoHashCall
    /\ agentCall = [done |-> FALSE]
    /\ pageCall = [done |-> FALSE]
    /\ WorkflowIdle
    /\ workflow = "ok"
    /\ apiCall = [done |-> FALSE]
    /\ entryCall = [done |-> FALSE]
    /\ embeddings = "ok"
    /\ noticiasrag = <<>>
    /\ vecCall = [done |-> FALSE]

poolUnchanged == <<pool, table, clock, nextId, calls, last, saved, hashCall, agentCall, pageCall,
                   workflowVars, workflow, apiCall, entryCall, embeddings, noticiasrag, vecCall,
                   workers>>

\* pool.getconn(): a connection, or PoolError("connection pool exhausted") when
\* maxconn connections are in use.  The operation's except turns the error
\* into its failure value (None, False, []).
_get_connection(t) ==
    /\ thread[t] = "idle"
    /\ IF Cardinality(used) < maxconn
       THEN used' = used \cup {t} /\ thread' = [thread EXCEPT ![t] = "query"]
       ELSE used' = used /\ thread' = [thread EXCEPT ![t] = "failed"]
    /\ UNCHANGED poolUnchanged

\* cur.execute or conn.commit raises: the operation enters its except clause
\* (which logs, and in save_analysis calls conn.rollback()) with the connection.
ExecuteRaises(t) ==
    /\ thread[t] = "query"
    /\ thread' = [thread EXCEPT ![t] = "except"]
    /\ UNCHANGED <<used, poolUnchanged>>

\* A finally that returns the connection only when the try block completed.
_return_connection_OnSuccessOnly(t) ==
    /\ thread[t] \in {"query", "except"}
    /\ used' = IF thread[t] = "query" THEN used \ {t} ELSE used
    /\ thread' = [thread EXCEPT ![t] = IF thread[t] = "query" THEN "answered" ELSE "errored"]
    /\ UNCHANGED poolUnchanged

\* The finally of the operation returns the connection, pool.putconn(conn),
\* after the try block completed and after the except clause alike (also when
\* conn.rollback() raised in it).
_return_connection(t) ==
    /\ thread[t] \in {"query", "except"}
    /\ used' = used \ {t}
    /\ thread' = [thread EXCEPT ![t] = IF thread[t] = "query" THEN "answered" ELSE "errored"]
    /\ UNCHANGED poolUnchanged

\* The caller starts another operation.
NextOperation(t) ==
    /\ thread[t] \in {"answered", "failed", "errored"}
    /\ thread' = [thread EXCEPT ![t] = "idle"]
    /\ UNCHANGED <<used, poolUnchanged>>

NextPool ==
    \E t \in Threads :
        \/ _get_connection(t) \/ ExecuteRaises(t) \/ _return_connection(t) \/ NextOperation(t)

SpecPool == InitPool /\ [][NextPool]_vars

\* C20: the pool never has more than 5 connections checked out, and an
\* operation that finds all 5 in use waits for one instead of failing.
C20_PoolBlocks ==
    /\ Cardinality(used) <= 5
    /\ \A t \in DOMAIN thread : thread[t] # "failed"

(***************************************************************************)
(* One attempt per collaborator in a request.                              *)
(***************************************************************************)
\* The request's input of the agent (workflow.py, step 4).
AnalysisInputOf(r) ==
    PostAnalysisInput(r.post_input.text, r.post_input.metadata, r.post_input.image_description,
                      r.post_input.social_network, r.bert_score)

\* chain.invoke was called in the request and analyze answered with the fallback.
LlmFailed(r) == r.llm_calls >= 1 /\ r.path = "fallback"

\* C21: within one request the classifier is called at most once and the
\* model at most once; a failed inference gives the score 0.5 and a failed
\* model call gives the score-only fallback verdict, with no second attempt.
C21_NoRetry ==
    \A r \in {req, prev} :
        r.pc # "idle" =>
            /\ r.classify_calls <= 1
            /\ r.llm_calls <= 1
            /\ (r.inference_raised /\ r.excStage = "") => r.bert_score = Scale \div 2
            /\ (LlmFailed(r) /\ r.excStage # "ANALYZE") =>
                  r.output = _default_analysis(AnalysisInputOf(r)).verdict

\* A request whose inference and model call both failed answered with the
\* fallback verdict of the score 0.5 after one call of each.
C21_Witness ==
    /\ Done(req) /\ req.inference_raised /\ LlmFailed(req)
    /\ req.classify_calls = 1 /\ req.llm_calls = 1
    /\ req.bert_score = Scale \div 2
    /\ req.result.risk_level = "MEDIO" /\ req.result.from_cache = FALSE

(***************************************************************************)
(* The order of the stages of a request.                                   *)
(***************************************************************************)
\* The statements of process_post_json in the order of the code.
StageOrder == <<"PARSE", "CACHE_LOOKUP", "CLASSIFY", "ANALYZE", "CACHE_WRITE", "DONE">>

Rank(stage) == CHOOSE i \in DOMAIN StageOrder : StageOrder[i] = stage

\* The request returned a verdict read from the cache.
CacheHit(r) ==
    Done(r) /\ HasKey(r.result, "from_cache") /\ r.result.from_cache = TRUE

\* C22: the stages of a request occur only in the order PARSE, CACHE_LOOKUP,
\* CLASSIFY, ANALYZE (retrieval and model), CACHE_WRITE, DONE, each at most
\* once; a cache hit ends the request without the classifier, the agent or a
\* cache write; the cache write comes directly after the agent returned a verdict.
C22_StageOrder ==
    \A r \in {req, prev} :
        r.pc # "idle" =>
            /\ \A i \in 1..(Len(r.stages) - 1) : Rank(r.stages[i]) < Rank(r.stages[i + 1])
            /\ r.stages # <<>> => r.stages[1] = "PARSE"
            /\ CacheHit(r) =>
                  /\ r.stages = <<"PARSE", "CACHE_LOOKUP">>
                  /\ r.classify_calls = 0 /\ r.llm_calls = 0 /\ r.write = "not called"
            /\ \A i \in DOMAIN r.stages :
                  r.stages[i] = "CACHE_WRITE" =>
                      /\ i > 1 /\ r.stages[i - 1] = "ANALYZE"
                      /\ ValidOutput(r.output)
            /\ r.write # "not called" => \E i \in DOMAIN r.stages : r.stages[i] = "CACHE_WRITE"

\* A request went through all six stages, the write after the agent's verdict.
C22_Witness ==
    /\ Done(req) /\ req.stages = StageOrder
    /\ req.write = "False" /\ req.classify_calls = 1
    /\ ValidOutput(req.output)

(***************************************************************************)
(* The list of sources.                                                    *)
(***************************************************************************)
\* The documents search_similar finds for the call (the table is as the call left it).
FoundBy(c) == search_similar(Query, c.k, c.fault.stage).value

\* The position of the first document of a source in the ranked documents.
FirstOccurrence(documents, source) ==
    CHOOSE i \in DOMAIN documents :
        /\ SourceOf(documents[i]) = source
        /\ \A j \in 1..(i - 1) : SourceOf(documents[j]) # source

\* C23: get_sources returns each source name of the documents found by
\* search_similar exactly once, in the order of its first occurrence in the
\* ranking; documents without a source count under the one placeholder name.
C23_SourcesDeduplicated ==
    (vecCall.done /\ vecCall.op = "get_sources") =>
        LET documents == FoundBy(vecCall)
            sources == vecCall.result.value
        IN  /\ ~vecCall.result.raised
            /\ {sources[i] : i \in DOMAIN sources} =
                  {SourceOf(documents[j]) : j \in DOMAIN documents}
            /\ \A i, j \in DOMAIN sources :
                  i < j => /\ sources[i] # sources[j]
                           /\ FirstOccurrence(documents, sources[i])
                                 < FirstOccurrence(documents, sources[j])

(***************************************************************************)
(* The fallback verdict and the cache.                                     *)
(***************************************************************************)
\* process_post_json from the stage the request has reached to its return value.
RestOfRequest(r, env) ==
    ThenShape(ThenCacheWrite(ThenAnalyze(ThenClassify(ThenCacheLookup(r, env), env), env), env))

\* The storage and the retrieval work and the model call fails.
LlmDown(env) ==
    /\ env.lookup = "none" /\ env.write = "none" /\ ~env.rollbackFails
    /\ ~env.retrieval.raises
    /\ env.llm.outcome # "ok"

\* C24: a verdict of the score-only fallback (failed model call) is written
\* to the cache like any other verdict, and the next identical request
\* returns that verdict with from_cache = true.
C24_FallbackCached ==
    /\ (req.pc = "cache_lookup" /\ pool = "ok" /\ table = {}) =>
          \A env \in Envs :
              LlmDown(env) =>
                  LET out == RestOfRequest(req, env) IN
                  /\ ~HasKey(out.result, "error")
                  /\ out.result.from_cache = FALSE
                  /\ \E row \in out.table :
                        ScoredFields(_output_to_dict(RowToOutput(row))) = ScoredFields(out.result)
    /\ (/\ Done(req) /\ Done(prev) /\ prev.json = req.json
        /\ StorageReachable(prev) /\ StorageReachable(req)
        /\ LlmFailed(prev) /\ ~HasKey(prev.result, "error")) =>
          req.result = WithFromCache(_output_to_dict(prev.output), TRUE)

(***************************************************************************)
(* Concurrent callers of process_post_json with the same post.  A step is  *)
(* one stage of one caller; the lookup is one SELECT and the write one     *)
(* INSERT ... ON CONFLICT with its commit, each atomic in the database.    *)
(***************************************************************************)
MaxWorkers == 2

Workers == 1..MaxWorkers

\* The bodies that _parse_post_json accepts.
ValidPostJsons == {j \in PostJsons : ~_parse_post_json(j).raised}

InitConcurrent ==
    /\ analysis_cache \in BOOLEAN
    /\ pool \in {"none", "ok"}
    /\ ~analysis_cache => pool = "none"
    /\ table \in {{}, {OldRow}}
    /\ clock = 1
    /\ nextId = 2
    /\ calls = 0
    /\ last = NoCall
    /\ saved = {}
    /\ hashCall = NoHashCall
    /\ agentCall = [done |-> FALSE]
    /\ pageCall = [done |-> FALSE]
    /\ req = NoRequest
    /\ prev = NoRequest
    /\ requests = 0
    /\ workflow = "ok"
    /\ apiCall = [done |-> FALSE]
    /\ entryCall = [done |-> FALSE]
    /\ embeddings = "ok"
    /\ noticiasrag = <<>>
    /\ vecCall = [done |-> FALSE]
    /\ used = {}
    /\ thread = <<>>
    /\ \E j \in ValidPostJsons : workers = [t \in Workers |-> NewRequest(j)]

concurrentUnchanged == <<pool, calls, last, hashCall, agentCall, pageCall, analysis_cache, req, prev,
                         requests, workflow, apiCall, entryCall, embeddings, noticiasrag, vecCall,
                         used, thread>>

WorkerParse(t) ==
    /\ workers[t].pc = "parse"
    /\ workers' = [workers EXCEPT ![t] = ParseStage(workers[t])]
    /\ UNCHANGED <<table, clock, nextId, saved, concurrentUnchanged>>

WorkerCacheLookup(t) ==
    /\ workers[t].pc = "cache_lookup"
    /\ \E f \in Faults \ {"commit"} :
          workers' = [workers EXCEPT ![t] = CacheLookupStage(workers[t], f)]
    /\ UNCHANGED <<table, clock, nextId, saved, concurrentUnchanged>>

WorkerClassify(t) ==
    /\ workers[t].pc = "classify"
    /\ \E i \in Inferences : workers' = [workers EXCEPT ![t] = ClassifyStage(workers[t], i)]
    /\ UNCHANGED <<table, clock, nextId, saved, concurrentUnchanged>>

WorkerAnalyze(t) ==
    /\ workers[t].pc = "analyze"
    /\ \E r \in Retrievals, l \in LlmOutcomes :
          workers' = [workers EXCEPT ![t] = AnalyzeStage(workers[t], r, l)]
    /\ UNCHANGED <<table, clock, nextId, saved, concurrentUnchanged>>

\* saved: the verdict of the write committed last, under its fingerprint.
WorkerCacheWrite(t) ==
    /\ workers[t].pc = "cache_write"
    /\ \E f \in Faults, rb \in BOOLEAN :
         LET w == CacheWriteStage(workers[t], f, rb) IN
         /\ f \in {"none", "getconn"} => ~rb
         /\ workers' = [workers EXCEPT ![t] = w.req]
         /\ table' = w.table
         /\ clock' = IF w.committed THEN clock + 1 ELSE clock
         /\ nextId' = IF Cardinality(w.table) > Cardinality(table) THEN nextId + 1 ELSE nextId
         /\ saved' = IF w.committed
                     THEN {[h |-> hash_data(workers[t].post_input), v |-> workers[t].output]}
                     ELSE saved
    /\ UNCHANGED concurrentUnchanged

WorkerShape(t) ==
    /\ workers[t].pc = "shape"
    /\ workers' = [workers EXCEPT ![t] = ShapeStage(workers[t])]
    /\ UNCHANGED <<table, clock, nextId, saved, concurrentUnchanged>>

NextConcurrent ==
    \E t \in Workers :
        \/ WorkerParse(t) \/ WorkerCacheLookup(t) \/ WorkerClassify(t)
        \/ WorkerAnalyze(t) \/ WorkerCacheWrite(t) \/ WorkerShape(t)

SpecConcurrent == InitConcurrent /\ [][NextConcurrent]_vars

AllFinished == \A t \in DOMAIN workers : Done(workers[t])

\* The unique index on post_hash.
OneRowPerFingerprint == \A r1, r2 \in table : r1.post_hash = r2.post_hash => r1 = r2

\* C25: concurrent requests for the same post may each miss the cache and
\* each compute a verdict; the cache never holds two rows of one fingerprint,
\* and once all requests have finished, with the storage reachable, the row
\* of the post holds the verdict of the write committed last.
C25_LastWriteWins ==
    /\ OneRowPerFingerprint
    /\ (/\ AllFinished /\ analysis_cache /\ pool = "ok"
        /\ \A t \in DOMAIN workers : ~workers[t].faulted) =>
          /\ \A t \in DOMAIN workers : ~HasKey(workers[t].result, "error")
          /\ \E s \in saved, row \in table :
                /\ row.post_hash = s.h
                /\ row.risk_level = s.v.risk_level /\ row.risk_score = s.v.risk_score
                /\ row.confidence = s.v.confidence /\ row.reasoning = s.v.reasoning

(***************************************************************************)
(* The connections of the cache's pool.                                    *)
(***************************************************************************)
\* The operation of the thread is between its getconn and its finally.
InOperation(t) == thread[t] \in {"query", "except"}

\* C26: every cache operation that took a connection from the pool returns it
\* on every exit path, after a result and after an exception alike: the
\* connections checked out are those of the operations in progress, and none
\* is checked out once the operations have completed.
C26_ConnectionsConserved ==
    /\ used = {t \in DOMAIN thread : InOperation(t)}
    /\ (\A t \in DOMAIN thread : ~InOperation(t)) => used = {}

\* Operations completed with a result and with an exception, and no
\* connection is checked out.
C26_Witness ==
    /\ \E t1, t2 \in DOMAIN thread : thread[t1] = "errored" /\ thread[t2] = "answered"
    /\ \A t \in DOMAIN thread : ~InOperation(t)
    /\ used = {}

(***************************************************************************)
(* The error output and the cache.                                         *)
(***************************************************************************)
\* The row holds the verdict of _error_output.
HoldsErrorVerdict(row) ==
    /\ row.confidence = 0
    /\ row.reasoning # <<>> /\ row.reasoning[1] = "Erro no processamento: "

\* The request ended in the error output.
EndedInError(r) == Done(r) /\ HasKey(r.result, "error")

\* C27: the cache write of a request is reached only with a verdict that the
\* agent returned; no cache row holds the error verdict; a request that ended
\* in the error output left the cache as it found it.
C27_ErrorNeverCached ==
    /\ \A row \in table : ~HoldsErrorVerdict(row)
    /\ \A r \in {req, prev} :
          (r.pc # "idle" /\ r.write # "not called") =>
              /\ r.path \in {"primary", "fallback"}
              /\ ValidOutput(r.output)
              /\ r.excStage \in {"", "CACHE_WRITE"}
    /\ EndedInError(req) => table = req.tableAtStart
    /\ (EndedInError(prev) /\ req.pc # "idle") => req.tableAtStart = prev.tableAtStart

\* After a request that ended in the error output, a request reached the
\* cache write with the agent's verdict; the row of the table is as before.
C27_Witness ==
    /\ EndedInError(prev) /\ prev.tableAtStart = {OldRow}
    /\ Done(req) /\ req.write # "not called" /\ req.path = "primary"
    /\ table = {OldRow}

(***************************************************************************)
(* The columns an upsert leaves alone.                                     *)
(***************************************************************************)
\* A sequence of save_analysis calls on one AnalysisCache.
NextUpsert == CacheSave

SpecUpsert == InitCache /\ [][NextUpsert]_vars

\* The columns that are not in the DO UPDATE SET list.
InsertOnlyColumns(row) ==
    <<row.id, row.post_hash, row.post_text, row.post_metadata, row.image_description,
      row.social_network, row.trend, row.created_at>>

\* C28: a save_analysis that hits an existing fingerprint changes only the
\* verdict columns and updated_at; id, post_text, post_metadata,
\* image_description, social_network, trend and created_at of the row stay
\* those of the first save, whatever the second post's text or metadata.
C28_UpsertFrame ==
    [][\A row \in table :
          \E kept \in table' :
              /\ InsertOnlyColumns(kept) = InsertOnlyColumns(row)
              /\ kept.updated_at >= row.updated_at]_vars

\* A row was updated by a save of a post whose text and metadata differ from
\* the ones the row was created with.
C28_Witness ==
    /\ last.op = "save" /\ last.ok /\ Hashable(last.post)
    /\ \E row \in RowsWithHash(hash_data(last.post)) :
          /\ row.updated_at > row.created_at
          /\ row.post_text # last.post.text
          /\ row.post_metadata # JsonObject(last.post.metadata)
          /\ row.risk_level = last.verdict.risk_level

(***************************************************************************)
(* The fallback verdict as a function of the score.                        *)
(***************************************************************************)
\* BAIXO < MEDIO < ALTO < CRITICO
RiskOrder == <<"BAIXO", "MEDIO", "ALTO", "CRITICO">>

LevelRank(risk_level) == CHOOSE i \in DOMAIN RiskOrder : RiskOrder[i] = risk_level

\* The fallback verdict of the call's post with another score.
FallbackAt(bert_score) ==
    _default_analysis([agentCall.input EXCEPT !.bert_score = bert_score]).verdict

\* C29: for every bert_score in [0, 1] the fallback verdict's risk_score lies
\* in [0, 1] and is at most bert_score, and risk_score and risk_level do not
\* decrease when bert_score grows, the thresholds 0.4, 0.6 and 0.8 included.
C29_FallbackMonotone ==
    (agentCall.done /\ PrimaryFailed(agentCall)) =>
        LET b == agentCall.input.bert_score
            v == agentCall.result.verdict
        IN  /\ ~agentCall.result.raised
            /\ v.risk_score \in 0..Scale
            /\ v.risk_score <= b
            /\ \A lower \in BertScores :
                  lower <= b =>
                      /\ FallbackAt(lower).risk_score <= v.risk_score
                      /\ LevelRank(FallbackAt(lower).risk_level) <= LevelRank(v.risk_level)

\* The fallback ran at the threshold 0.6: above the verdict just below it.
C29_Witness ==
    /\ agentCall.done /\ PrimaryFailed(agentCall)
    /\ agentCall.input.bert_score = Tenths(6)
    /\ agentCall.result.verdict.risk_level = "ALTO"
    /\ agentCall.result.verdict.risk_score = 540000
    /\ FallbackAt(Tenths(6) - 10).risk_level = "MEDIO"
    /\ FallbackAt(Tenths(6) - 10).risk_score = 419993

====
